---- MODULE Spec2Model ----
(***************************************************************************)
(* The parser state machine of glimmer-syntax.                             *)
(*                                                                         *)
(* The repository holds two copies of the parser:                          *)
(*   "thunk"   Parser (lib/parser/parser.ts) reached through a parser      *)
(*             thunk by HandlebarsNodeVisitors                             *)
(*             (lib/parser/handlebars-node-visitors.ts) and the first      *)
(*             TokenizerEventHandlers of tokenizer-event-handlers.ts;      *)
(*   "classic" the abstract Parser (lib/parser.ts), its subclass           *)
(*             HandlebarsNodeVisitors (unnamed/part_007) and the second    *)
(*             TokenizerEventHandlers of tokenizer-event-handlers.ts,      *)
(*             the one SourceTemplate.parse instantiates.                  *)
(* The variable pipeline fixes which copy a behaviour runs.                *)
(*                                                                         *)
(* The HTML tokenizer (simple-html-tokenizer) and the Handlebars parser    *)
(* are the environment: they choose which delegate callback or node        *)
(* visitor runs next.  Block statements are drawn without an inverse       *)
(* block, expression nodes are single path heads.                          *)
(***************************************************************************)
EXTENDS Integers, Sequences, FiniteSets, TLC

\* ---------------------------------------------------------------- bounds
MaxNodes == 2        \* Template, Block and ElementNode objects per parse
MaxErrors == 2       \* diagnostics after which no further event is drawn
MaxTagNameLen == 2   \* characters of a tag name
MaxAttributes == 1   \* attributes in one template
MaxMustaches == 1    \* mustache statements in one template
MaxTextLen == 1      \* characters of one text part of an attribute value

\* ---------------------------------------------------------------- inputs
TagNameChars == {"p", "br"}
Names == {"a"}
BlockParamChoices == {{}, {"a"}}
AttrNameChars == {"x", "as", "|a|"}
AttrValueChars == {"x", "/"}
optionsLocals == {}

Undefined == 0
NoRaise == "none"

\* the fixed set of implicitly-void tags (voidMap of the printer)
voidMap == {"br"}

VARIABLES
  pipeline,        \* which copy of the parser runs
  entry,           \* how the caller's options reach NormalizedPreprocessOptions
  options,         \* the caller's PreprocessOptions; the parse does not read
                   \* them, they are "unread" until SourceTemplate.preprocess
                   \* consults mode.errors
  tokenizerState,  \* EventedTokenizer.state
  parser,          \* the fields of the Parser object
  frames,          \* activations of HandlebarsNodeVisitors.Program
  outcome,         \* where the preprocess() call is
  thrown,          \* the value the call raised
  template,        \* the Template handed back by acceptTemplate
  drawn,           \* how much of the template has been read
  walk,            \* the plugins and the Walker at work on the parsed tree
  located,         \* a SourceTemplate with the offsets and spans made on it
  startTag,        \* the attributes of a start tag given to getBlockParams
  scanned,         \* a template given to getTemplateLocals
  constructing,    \* a comment, text, tag name, attribute name or value taking characters
  fired            \* a tokenizer callback on its way through the state validation

vars == <<pipeline, entry, options, tokenizerState, parser, frames, outcome, thrown,
          template, drawn, walk, located, startTag, scanned, constructing, fired>>

\* ------------------------------------------------------------- utilities
Top(s) == s[Len(s)]
Pop(s) == SubSeq(s, 1, Len(s) - 1)

Raise(p, fault) == [p EXCEPT !.raised = fault]
Then(p, F(_)) == IF p.raised # NoRaise THEN p ELSE F(p)

\* utils/array.ts
isPresent(value) == Len(value) > 0

\* ------------------------------------------------------------ the scope
\* Scope.child merges the parent's locals with the new ones
child(locals, new) == locals \cup new

hasBinding(name) == name \in optionsLocals

declaration(locals, name) ==
  IF name \in locals THEN "internal"
  ELSE IF hasBinding(name) THEN "embedder"
  ELSE "free"

\* ------------------------------------------------------- error reporting
reportError(p, error) ==
  [p EXCEPT !.errors = Append(@, error), !.reported = Append(@, error)]

\* ------------------------------------------------------------ the stacks
\* this.builder is the top of the builder stack; none is left to call
\* child on when the stack is empty
pushScope(p, locals) ==
  IF Len(p.builderStack) = 0
  THEN Raise(p, "TypeError: cannot read properties of null")
  ELSE [p EXCEPT !.builderStack = Append(@, child(Top(@), locals))]

\* the builder of the current scope; an empty builder stack has none
builder(p) == IF Len(p.builderStack) = 0 THEN {} ELSE Top(p.builderStack)

popScope(p) ==
  IF Len(p.builderStack) = 0 THEN Raise(p, "Error: unbalanced scopes")
  ELSE [p EXCEPT !.builderStack = Pop(@)]

pushParent(p, id) == [p EXCEPT !.parentStack = Append(@, id)]

\* Stack.current / Parser.currentElement(): null or undefined when empty
current(p) == IF Len(p.parentStack) = 0 THEN Undefined ELSE Top(p.parentStack)

\* Stack.pop raises on an empty stack (thunk); Array.pop yields undefined
\* (classic).  The popped entry is left in p.popped.
popParent(p) ==
  IF Len(p.parentStack) = 0
  THEN IF p.pipeline = "thunk"
       THEN Raise(p, "Error: When popping a stack: expected the stack to have items")
       ELSE [p EXCEPT !.popped = Undefined]
  ELSE [p EXCEPT !.popped = Top(p.parentStack), !.parentStack = Pop(@)]

\* utils appendChild: push the child on the statements of the parent
appendChild(p, parent, childNode) ==
  IF parent = Undefined
  THEN Raise(p, "TypeError: cannot read properties of undefined")
  ELSE [p EXCEPT !.nodes[parent].children = Append(@, childNode)]

\* Parser.appendNode (thunk) / appendChild(this.currentElement(), node)
appendNode(p, childNode) ==
  IF p.pipeline = "thunk" /\ current(p) = Undefined
  THEN Raise(p, "Error: BUG: When appending a block, a parent must exist")
  ELSE appendChild(p, current(p), childNode)

\* a fresh Template, Block or ElementNode object
newNode(p, type, tag, blockParams) ==
  [p EXCEPT !.nodes[p.nextId] =
              [type |-> type, tag |-> tag, blockParams |-> blockParams,
               children |-> <<>>],
            !.nextId = @ + 1]

NoNode == [type |-> "none", tag |-> "", blockParams |-> {}, children |-> <<>>]
NoTag == [type |-> "none", name |-> "", attributes |-> <<>>, modifiers |-> 0,
          selfClosing |-> FALSE]

\* an attribute value or one of its parts; chars is the text of a TextNode
\* and the path head of a MustacheStatement
Value(type, chars, declared, parts) ==
  [type |-> type, chars |-> chars, declared |-> declared, parts |-> parts]
TextNode(chars) == Value("TextNode", chars, "", <<>>)
NoValue == Value("none", "", "", <<>>)

\* the attribute under construction; currentPart is <<>> for null
NoAttr == [constructing |-> "none", name |-> "", parts |-> <<>>,
           currentPart |-> <<>>, isQuoted |-> FALSE, isDynamic |-> FALSE]

\* the arguments and the result of the latest attribute value assembly
NoAssembled == [called |-> FALSE, parts |-> <<>>, isQuoted |-> FALSE,
                isDynamic |-> FALSE, value |-> NoValue]

\* --------------------------------------------------------------- Program
\* Program up to the loop over the children: push the scope, build the
\* Template (no parent) or Block node, push it.  The new node is nextId - 1.
Program_enter(p, blockParams) ==
  LET scoped == pushScope(p, blockParams)
      type == IF current(p) = Undefined THEN "Template" ELSE "Block"
      made == newNode(scoped, type, "undefined", blockParams)
  IN pushParent(made, p.nextId)

\* Program with no children: the node is popped again and returned
Program_empty(p, blockParams) == popParent(Program_enter(p, blockParams))

\* Program after the loop: pop, compare with the node pushed, pop the scope
Program_exit(p, node) ==
  LET q == popParent(p)
      unclosed(r) ==
        IF r.popped = node THEN r
        ELSE IF r.pipeline = "thunk"
        THEN IF r.nodes[r.popped].type # "ElementNode"
             THEN Raise(r, "Error: The only possible kind of unclosed parent is ElementNode")
             ELSE reportError(r, "elements.unclosed-element")
        ELSE IF r.popped = Undefined \/ r.nodes[r.popped].type # "ElementNode"
             THEN Raise(r, "TypeError: cannot read properties of undefined")
             ELSE Raise(r, "GlimmerSyntaxError: elements.unclosed-element")
  IN Then(Then(q, unclosed), popScope)

acceptTemplate_dropsSingle(p) ==
  IF Len(p.errors) > 1
  THEN [hasErrors |-> TRUE, errors |-> p.errors]
  ELSE [hasErrors |-> FALSE, errors |-> <<>>]

\* Parser.acceptTemplate: attach the diagnostics when there are any
acceptTemplate(p) ==
  IF isPresent(p.errors)
  THEN [hasErrors |-> TRUE, errors |-> p.errors]
  ELSE [hasErrors |-> FALSE, errors |-> <<>>]

\* ------------------------------------------------------------------ Init
InitParser(pl) ==
  [pipeline |-> pl,
   parentStack |-> <<>>,
   builderStack |-> <<{}>>,
   stateStack |-> <<>>,
   nodes |-> [i \in 1..(MaxNodes + 1) |-> NoNode],
   nextId |-> 1,
   errors |-> <<>>,
   reported |-> <<>>,
   currentNode |-> NoTag,
   currentAttribute |-> NoAttr,
   assembled |-> NoAssembled,
   popped |-> Undefined,
   poppedState |-> [type |-> "null", tag |-> ""],
   valid |-> FALSE,
   raised |-> NoRaise]

\* no plugin and no Walker runs while the template is parsed
NoWalk == [phase |-> "parse"]

\* no SourceTemplate is being asked for positions
NoSource == [phase |-> "none"]

\* no start tag is being looked at for block params
NoStartTag == [phase |-> "none"]

\* no template is being searched for its locals
NoLocals == [phase |-> "none"]

\* no tokenizer callback is being validated
NoCallback == [phase |-> "none"]

\* no constructing record is taking characters
NotConstructing == [phase |-> "none"]

Init ==
  /\ pipeline \in {"thunk", "classic"}
  /\ entry = "unread"
  /\ options = "unread"
  /\ tokenizerState = "beforeData"
  /\ parser = InitParser(pipeline)
  /\ frames = <<>>
  /\ outcome = "constructed"
  /\ thrown = NoRaise
  /\ template = [hasErrors |-> FALSE, errors |-> <<>>]
  /\ drawn = [attributes |-> 0, mustaches |-> 0, endTags |-> 0]
  /\ walk = NoWalk
  /\ located = NoSource
  /\ startTag = NoStartTag
  /\ scanned = NoLocals
  /\ constructing = NotConstructing
  /\ fired = NoCallback

\* the effect of one handler on the call: either it raised or it went on
Continue(p) ==
  IF p.raised # NoRaise
  THEN /\ parser' = p
       /\ outcome' = "threw"
       /\ thrown' = p.raised
  ELSE /\ parser' = p
       /\ UNCHANGED <<outcome, thrown>>

UNCHANGED_call == UNCHANGED <<pipeline, entry, options, drawn>>

Entries == {"preprocess", "preprocess.normalized"}
Options == {"undefined", "{}", "{throwErrors: true}", "{throwErrors: false}"}

\* the parser as a handler finds it: the values the previous handler
\* returned to its caller (p.popped, p.poppedState, p.valid, p.assembled)
\* are gone
Entered ==
  [parser EXCEPT !.popped = Undefined,
                 !.poppedState = [type |-> "null", tag |-> ""],
                 !.valid = FALSE,
                 !.assembled = NoAssembled]

\* Parser.acceptTemplate entering Program for the whole template
AcceptTemplate_begin ==
  /\ outcome = "constructed"
  /\ \E empty \in BOOLEAN :
       IF empty
       THEN LET p == Program_empty(parser, {})
            IN /\ parser' = p
               /\ template' = acceptTemplate(p)
               /\ outcome' = "accepted"
               /\ UNCHANGED <<frames, thrown>>
       ELSE /\ parser' = Program_enter(parser, {})
            /\ frames' = <<[node |-> parser.nextId, kind |-> "Template"]>>
            /\ outcome' = "parsing"
            /\ UNCHANGED <<template, thrown>>
  /\ UNCHANGED tokenizerState
  /\ UNCHANGED_call
  /\ UNCHANGED <<walk, located, startTag, scanned, constructing, fired>>

Parsing ==
  /\ outcome = "parsing"
  /\ Len(parser.errors) < MaxErrors

\* ------------------------------------------------ the legacy state stack
\* TokenizerEventHandlers.#pushState (classic)
pushState(p, type, tag) ==
  [p EXCEPT !.stateStack = Append(@, [type |-> type, tag |-> tag])]

\* TokenizerEventHandlers.#popState (classic); the options of the popped
\* state are left in p.poppedState, "null" for a tolerated missing state
popState(p, expected, allowMissing) ==
  IF allowMissing /\ (Len(p.stateStack) = 0 \/ Top(p.stateStack).type # expected)
  THEN [p EXCEPT !.poppedState = [type |-> "null", tag |-> ""]]
  ELSE IF Len(p.stateStack) = 0
  THEN Raise(p, "Error: When popping a stack: expected the stack to have items")
  ELSE IF Top(p.stateStack).type # expected
  THEN Raise([p EXCEPT !.stateStack = Pop(@)],
             "Error: BUG: Unbalanced push and pop in tokenizer state")
  ELSE [p EXCEPT !.poppedState = Top(p.stateStack), !.stateStack = Pop(@)]

\* ------------------------------------------------------------- tag names
isTag(node) == node.type \in {"StartTag", "EndTag"}

\* the type of what the thunk parser is constructing: the attribute (value)
\* begun on a tag hides the tag
constructingType(p) ==
  IF p.currentAttribute.constructing # "none"
  THEN p.currentAttribute.constructing
  ELSE p.currentNode.type

\* Parser.#verifyConstructing (thunk)
verifyConstructing(p, types) ==
  IF constructingType(p) = "none"
  THEN Raise(p, "Error: BUG: expected the parser to be constructing, but it wasn't constructing anything")
  ELSE IF constructingType(p) \notin types
  THEN Raise(p, "Error: BUG: expected the parser to be constructing another type")
  ELSE p

\* beginStartTag / beginEndTag: a fresh tag under construction
beginTag(p, type) ==
  LET started == [p EXCEPT !.currentNode =
                    [type |-> type, name |-> "", attributes |-> <<>>,
                     modifiers |-> 0, selfClosing |-> FALSE]]
  IN IF p.pipeline = "classic" THEN pushState(started, "open-tag", "")
     ELSE [started EXCEPT !.currentAttribute = NoAttr]

appendToTagName(p, char) ==
  IF p.pipeline = "classic"
  THEN IF Len(p.stateStack) = 0
       THEN Raise(p, "Error: Variable 'this.#state.current' is not defined")
       ELSE IF Top(p.stateStack).type # "open-tag"
       THEN Raise(p, "Error: Expected state of type open-tag")
       ELSE IF ~isTag(p.currentNode)
       THEN Raise(p, "Error: expected tag")
       ELSE [p EXCEPT !.stateStack[Len(p.stateStack)].tag = @ \o char,
                      !.currentNode.name = @ \o char]
  ELSE Then(verifyConstructing(p, {"StartTag", "EndTag"}),
            LAMBDA r : [r EXCEPT !.currentNode.name = @ \o char])

\* ----------------------------------------------------------- block params
isBareAttr(attr) == attr.value.type = "TextNode" /\ attr.value.chars = ""
isBareAttrNamed(attr, name) == attr.name = name /\ isBareAttr(attr)
bareAttr(name) == [name |-> name, value |-> TextNode("")]

\* name.match(/^(\|?)(.*?)(\|?)$/) on the attribute names of the model:
\* the opening pipe, the body and the closing pipe
name_match(name) ==
  CASE name = "|" -> <<"|", "", "">>
    [] name = "||" -> <<"|", "", "|">>
    [] name = "|a" -> <<"|", "a", "">>
    [] name = "|a|" -> <<"|", "a", "|">>
    [] name = "b|" -> <<"", "b", "|">>
    [] OTHER -> <<"", name, "">>

\* preparseAttr splits the pipes off a bare name
preparseAttr(attr) ==
  IF ~isBareAttr(attr) THEN <<attr>>
  ELSE LET openPipe == name_match(attr.name)[1]
           body == name_match(attr.name)[2]
           closePipe == name_match(attr.name)[3]
       IN (IF openPipe # "" THEN <<bareAttr(openPipe)>> ELSE <<>>)
            \o (IF body # "" THEN <<bareAttr(body)>> ELSE <<>>)
            \o (IF closePipe # "" THEN <<bareAttr(closePipe)>> ELSE <<>>)

RECURSIVE preparseAttrs(_)
preparseAttrs(attrs) ==
  IF attrs = <<>> THEN <<>>
  ELSE preparseAttr(Head(attrs)) \o preparseAttrs(Tail(attrs))

Slice(attrs, from, to) == SubSeq(attrs, from, to)

findBareAttr(attributes, name) ==
  LET at == {i \in 1..Len(attributes) : isBareAttrNamed(attributes[i], name)}
  IN IF at = {}
     THEN [found |-> FALSE, before |-> <<>>, rest |-> attributes]
     ELSE LET index == CHOOSE i \in at : \A k \in at : i <= k
          IN [found |-> TRUE, before |-> Slice(attributes, 1, index - 1),
              rest |-> Slice(attributes, index + 1, Len(attributes))]

findLastBareAttr(attributes, name) ==
  LET at == {i \in 1..Len(attributes) : isBareAttrNamed(attributes[i], name)}
  IN IF at = {}
     THEN [found |-> FALSE, before |-> <<>>, rest |-> attributes]
     ELSE LET index == CHOOSE i \in at : \A k \in at : i >= k
          IN [found |-> TRUE, before |-> Slice(attributes, 1, index - 1),
              rest |-> Slice(attributes, index + 1, Len(attributes))]

\* ID_INVERSE_PATTERN on the names of the model: the pipe is in {-~
ID_INVERSE_PATTERN(name) == name \in {"|", "||", "|a", "|a|", "b|"}

\* PipePair.params: names is the array, params the names in it
PipePair_params(paramNodes) ==
  LET bad == {i \in 1..Len(paramNodes) : ID_INVERSE_PATTERN(paramNodes[i].name)}
  IN IF bad # {}
     THEN [type |-> "err", error |-> "block-params.invalid-id", params |-> {},
           names |-> <<>>]
     ELSE [type |-> "ok", error |-> "",
           params |-> {paramNodes[i].name : i \in 1..Len(paramNodes)},
           names |-> [i \in 1..Len(paramNodes) |-> paramNodes[i].name]]

\* the two codes, each given for the case of the other
MissingAs_error_swapped(closed) ==
  IF closed THEN "block-params.missing-as-before-unclosed-pipe"
  ELSE "block-params.missing-as"

\* MissingAs.error
MissingAs_error(closed) ==
  IF closed THEN "block-params.missing-as"
  ELSE "block-params.missing-as-before-unclosed-pipe"

\* TooManyPipes.error, attrs being what follows the last pipe
TooManyPipes_error(attrs) ==
  IF Len(attrs) > 0 THEN "block-params.extra-pipes-and-attrs"
  ELSE "block-params.extra-pipes"

NoBlockParams == [kind |-> "null", before |-> <<>>, params |-> <<>>]
Problem(error) == [kind |-> error, before |-> <<>>, params |-> <<>>]

\* ParsedBlockParams.parse without `as`: no pipe, or MissingAs
parse_noAs(first, second) ==
  IF ~first.found THEN NoBlockParams
  ELSE Problem(MissingAs_error(~(~second.found \/ Len(second.rest) > 0)))

\* ParsedBlockParams.parse once both pipes after `as` are found
parse_secondPipe(before, second, last) ==
  IF Len(second.rest) > 0
  THEN IF ~last.found THEN Problem("block-params.extra-attrs")
       ELSE Problem(TooManyPipes_error(last.rest))
  ELSE IF Len(second.before) = 0 THEN Problem("block-params.empty")
  ELSE [kind |-> "valid", before |-> before, params |-> second.before]

\* ParsedBlockParams.parse from the first pipe after `as` on
parse_firstPipe(before, first, second) ==
  IF ~first.found THEN Problem("block-params.missing-pipe")
  ELSE IF ~second.found THEN Problem("block-params.unclosed")
  ELSE parse_secondPipe(before, second, findLastBareAttr(second.rest, "|"))

\* the pipe after the one found
nextPipe(first) == findBareAttr(first.rest, "|")

\* ParsedBlockParams.parse once `as` was looked for
parse_afterAs(before, first) == parse_firstPipe(before, first, nextPipe(first))

parse_withoutAs(first) == parse_noAs(first, nextPipe(first))

parse_foundAs(attributes, foundAs) ==
  IF ~foundAs.found
  THEN parse_withoutAs(findBareAttr(attributes, "|"))
  ELSE parse_afterAs(foundAs.before, findBareAttr(foundAs.rest, "|"))

\* the first pipe looked for in all the attributes, those before `as` too
ParsedBlockParams_parse_pipeAnywhere(attributes) ==
  LET foundAs == findBareAttr(attributes, "as")
      first == findBareAttr(attributes, "|")
      second == findBareAttr(first.rest, "|")
      problem(error) == [kind |-> error, before |-> <<>>, params |-> <<>>]
  IN IF ~foundAs.found
     THEN IF ~first.found THEN [kind |-> "null", before |-> <<>>, params |-> <<>>]
          ELSE problem(MissingAs_error(second.found /\ Len(second.rest) = 0))
     ELSE IF ~first.found THEN problem("block-params.missing-pipe")
          ELSE IF ~second.found THEN problem("block-params.unclosed")
          ELSE IF Len(second.rest) > 0 THEN problem("block-params.extra-attrs")
          ELSE IF Len(second.before) = 0 THEN problem("block-params.empty")
          ELSE [kind |-> "valid", before |-> foundAs.before, params |-> second.before]

\* ParsedBlockParams.parse with the error of the Problem found: "null" for
\* no block params, "valid" for ValidPipeNodes
ParsedBlockParams_parse(attributes) ==
  parse_foundAs(attributes, findBareAttr(attributes, "as"))

\* the error result of getBlockParams
BlockParamsError(error) ==
  [type |-> "err", error |-> error, attrs |-> <<>>, blockParams |-> {}, names |-> <<>>]

\* getBlockParams on ValidPipeNodes: the params of the pair
getBlockParams_valid(before, names) ==
  IF names.type = "ok"
  THEN [type |-> "ok", error |-> "", attrs |-> before,
        blockParams |-> names.params, names |-> names.names]
  ELSE BlockParamsError(names.error)

\* getBlockParams on what ParsedBlockParams.parse gave
getBlockParams_parsed(attributes, parsed) ==
  IF parsed.kind = "null"
  THEN [type |-> "ok", error |-> "", attrs |-> attributes, blockParams |-> {},
        names |-> <<>>]
  ELSE IF parsed.kind = "valid"
  THEN getBlockParams_valid(parsed.before, PipePair_params(parsed.params))
  ELSE BlockParamsError(parsed.kind)

\* utils getBlockParams
getBlockParams(attributes) ==
  getBlockParams_parsed(attributes, ParsedBlockParams_parse(preparseAttrs(attributes)))

\* -------------------------------------------------------------- elements
isSelfClosing(tag) == tag.name \in voidMap \/ tag.selfClosing

\* builder.element: the ElementNode of a finished start tag, id p.nextId;
\* its attrs and modifiers are not read again during the parse
element(p, tag, parsed) ==
  [p EXCEPT !.nodes[p.nextId] =
              [type |-> "ElementNode", tag |-> tag.name,
               blockParams |-> parsed.blockParams, children |-> <<>>],
            !.nextId = @ + 1]

ElementChild(id) == [type |-> "ElementNode", ref |-> id]

\* Parser.#appendElement (thunk): the parent must exist
appendElement(p, id) ==
  IF current(p) = Undefined
  THEN Raise(p, "Error: BUG: When appending an element, a parent must exist")
  ELSE appendChild(p, current(p), ElementChild(id))

\* Parser.startElement (thunk)
startElement(p, id, tag) ==
  IF isSelfClosing(tag)
  THEN appendElement(p, id)
  ELSE pushParent(pushScope(p, p.nodes[id].blockParams), id)

\* Parser.#validateEndTag (thunk); the verdict is left in p.valid
validateEndTag(p, tag, id) ==
  IF tag.name \in voidMap
  THEN [reportError(p, "elements.unnecessary-end-tag") EXCEPT !.valid = FALSE]
  ELSE IF p.nodes[id].type # "ElementNode" \/ p.nodes[id].tag = "undefined"
  THEN [reportError(p, "elements.end-without-start-tag") EXCEPT !.valid = FALSE]
  ELSE IF p.nodes[id].tag # tag.name
  THEN [reportError(p, "elements.unbalanced-tags") EXCEPT !.valid = FALSE]
  ELSE [p EXCEPT !.valid = TRUE]

\* Parser.endElement (thunk)
endElement(p, tag) ==
  LET q == popParent(p)
      checked(r) == validateEndTag(r, tag, r.popped)
      closed(r) == IF r.valid
                   THEN Then(popScope(r), LAMBDA s : appendElement(s, r.popped))
                   ELSE r
  IN Then(Then(q, checked), closed)

\* TokenizerEventHandlers.finishTag (thunk) on a start tag, parsed being its
\* block params
finishStartTag_thunk(cleared, tag, parsed) ==
  LET told == IF parsed.type = "err"
              THEN reportError(cleared, parsed.error) ELSE cleared
  IN startElement(element(told, tag, parsed), told.nextId, tag)

\* TokenizerEventHandlers.finishTag (thunk) with Parser.finishTag
finishTag_thunk(p) ==
  LET tag == p.currentNode
      cleared == [p EXCEPT !.currentNode = NoTag, !.currentAttribute = NoAttr]
  IN IF constructingType(p) \notin {"StartTag", "EndTag"}
     THEN Raise(p, "Error: BUG: expected a tag")
     ELSE IF tag.type = "StartTag"
     THEN IF tag.name = ":"
          THEN reportError(cleared, "html.syntax.invalid-named-block")
          ELSE finishStartTag_thunk(cleared, tag, getBlockParams(tag.attributes))
     ELSE endElement(cleared, tag)

\* TokenizerEventHandlers.#finishElement (classic)
finishElement(p, id) == appendChild(p, current(p), ElementChild(id))

\* TokenizerEventHandlers.#finishStartTag (classic)
finishStartTag_parsed(p, tag, parsed) ==
  LET made == element(p, tag, parsed)
      id == p.nextId
      opened(r) ==
        IF isSelfClosing(tag)
        THEN finishElement(r, id)
        ELSE pushState(pushParent(pushScope(r, parsed.blockParams), id),
                       "element", r.poppedState.tag)
  IN IF tag.type # "StartTag"
     THEN Raise(p, "Error: expected start tag")
     ELSE Then(popState(made, "open-tag", FALSE), opened)

\* the start tag under construction and its block params
finishStartTag(p) ==
  finishStartTag_parsed(p, p.currentNode, getBlockParams(p.currentNode.attributes))

\* TokenizerEventHandlers.#validateEndTag (classic)
validateEndTag_classic(p, tag, id) ==
  IF tag.name \in voidMap
  THEN Then(popState(p, "open-tag", FALSE),
            LAMBDA r : [reportError(r, "elements.unnecessary-end-tag")
                          EXCEPT !.valid = FALSE])
  ELSE IF id = Undefined
  THEN Raise(p, "TypeError: cannot read properties of undefined")
  ELSE IF p.nodes[id].tag = "undefined"
  THEN Then(popState(p, "open-tag", FALSE),
            LAMBDA r : [reportError(r, "elements.end-without-start-tag")
                          EXCEPT !.valid = FALSE])
  ELSE IF p.nodes[id].tag # tag.name
  THEN Then(popState(p, "open-tag", FALSE),
            LAMBDA r : [reportError(r, "elements.unbalanced-tags")
                          EXCEPT !.valid = FALSE])
  ELSE [p EXCEPT !.valid = TRUE]

\* TokenizerEventHandlers.#finishEndTag (classic)
finishEndTag(p) ==
  LET tag == p.currentNode
      q == popParent(p)
      id == q.popped
      checked == validateEndTag_classic(q, tag, id)
      element_state(r) ==
        LET closing == r.poppedState
            s == popState(r, "element", TRUE)
        IN IF s.raised # NoRaise THEN s
           ELSE IF s.poppedState.type = "null"
           THEN reportError(s, "elements.end-without-start-tag")
           ELSE LET t == popScope(s)
                IN IF t.raised = NoRaise /\ closing.tag # s.poppedState.tag
                   THEN reportError(t, "elements.unbalanced-tags")
                   ELSE t
      closed(r) ==
        IF r.valid
        THEN Then(Then(finishElement(r, id),
                       LAMBDA s : popState(s, "open-tag", FALSE)),
                  element_state)
        ELSE r
  IN Then(checked, closed)

\* TokenizerEventHandlers.finishTag (classic)
finishTag_classic(p) ==
  LET tag == p.currentNode
  IN IF ~isTag(tag)
     THEN Raise(p, "Error: expected tag")
     ELSE IF tag.type = "StartTag"
     THEN Then(finishStartTag(p),
               LAMBDA r : IF tag.name = ":"
                          THEN Raise(r, "GlimmerSyntaxError: Invalid named block")
                          ELSE r)
     ELSE finishEndTag(p)

finishTag(p) == IF p.pipeline = "thunk" THEN finishTag_thunk(p) ELSE finishTag_classic(p)

\* ------------------------------------------------------------ attributes
Placeholder == TextNode("<invalid attribute value>")

\* ConstructingAttributeValue.#assemble (thunk)
assemble(p, parts, quoted, dynamic) ==
  LET done(value) == [p EXCEPT !.assembled =
                        [called |-> TRUE, parts |-> parts, isQuoted |-> quoted,
                         isDynamic |-> dynamic, value |-> value]]
  IN IF dynamic
     THEN IF quoted
          THEN IF ~isPresent(parts)
               THEN Raise(done(NoValue), "Error: the concatenation parts of an element should not be empty")
               ELSE done(Value("ConcatStatement", "", "", parts))
          ELSE IF Len(parts) # 1
               THEN Raise(done(NoValue), "Error: an attribute value cannot have more than one dynamic part if it's not concatentated")
               ELSE done(parts[1])
     ELSE IF Len(parts) = 0 THEN done(TextNode(""))
     ELSE done(parts[1])

\* TokenizerEventHandlers.#assembleAttributeValue (classic)
assembleAttributeValue(p, parts, isQuoted, isDynamic) ==
  LET done(q, value) == [q EXCEPT !.assembled =
                           [called |-> TRUE, parts |-> parts, isQuoted |-> isQuoted,
                            isDynamic |-> isDynamic, value |-> value]]
  IN IF isDynamic
     THEN IF isQuoted
          THEN IF ~isPresent(parts)
               THEN Raise(done(p, NoValue), "Error: the concatenation parts of an element should not be empty")
               ELSE done(p, Value("ConcatStatement", "", "", parts))
          ELSE IF Len(parts) = 1
                  \/ (Len(parts) = 2 /\ parts[2].type = "TextNode" /\ parts[2].chars = "/")
               THEN done(p, parts[1])
               ELSE done(reportError(p, "attrs.invalid-attr-value"), Placeholder)
     ELSE IF Len(parts) > 0 THEN done(p, parts[1])
     ELSE done(p, TextNode(""))

\* the currentAttr getter (classic)
currentAttr(p, F(_)) ==
  IF p.currentAttribute.constructing = "none"
  THEN Raise(p, "Error: expected attribute")
  ELSE F(p)

\* ConstructingAttributeValue.finishText / finalizeTextPart with startTextPart
finalizeTextPart(p) ==
  IF p.currentAttribute.currentPart # <<>>
  THEN [p EXCEPT !.currentAttribute.parts =
                   Append(@, TextNode(p.currentAttribute.currentPart[1])),
                 !.currentAttribute.currentPart = <<>>]
  ELSE p

\* Parser.startAttr (thunk) / beginAttribute (classic)
beginAttribute(p) ==
  LET fresh(r) == [r EXCEPT !.currentAttribute = [NoAttr EXCEPT !.constructing = "Attribute"]]
  IN IF p.pipeline = "thunk"
     THEN LET told == IF constructingType(p) = "EndTag"
                      THEN reportError(p, "elements.invalid-attrs-in-end-tag")
                      ELSE p
          IN Then(verifyConstructing(told, {"StartTag", "EndTag"}), fresh)
     ELSE pushState(fresh(p), "attr:name", "")

appendToAttributeName(p, char) ==
  LET named(r) == [r EXCEPT !.currentAttribute.name = @ \o char]
  IN IF p.pipeline = "thunk"
     THEN Then(verifyConstructing(p, {"Attribute"}), named)
     ELSE currentAttr(p, named)

\* Parser.startAttrValue (thunk) / beginAttributeValue (classic)
beginAttributeValue(p, isQuoted) ==
  IF p.pipeline = "thunk"
  THEN Then(verifyConstructing(p, {"Attribute"}),
            LAMBDA r : [r EXCEPT !.currentAttribute =
                          [@ EXCEPT !.constructing = "AttributeValue",
                                    !.isQuoted = isQuoted, !.isDynamic = FALSE,
                                    !.parts = <<>>, !.currentPart = <<>>]])
  ELSE Then(Then(popState(p, "attr:name", FALSE),
                 LAMBDA r : pushState(r, "attr:value", "")),
            LAMBDA r : currentAttr(r, LAMBDA t :
                         [t EXCEPT !.currentAttribute.isQuoted = isQuoted,
                                   !.currentAttribute.currentPart = <<>>]))

\* ConstructingAttributeValue.addChar (thunk) / appendToAttributeValue
appendToAttributeValue(p, char) ==
  LET added(r) ==
        IF r.currentAttribute.currentPart # <<>>
        THEN [r EXCEPT !.currentAttribute.currentPart[1] = @ \o char]
        ELSE [r EXCEPT !.currentAttribute.currentPart = <<char>>]
  IN IF p.pipeline = "thunk"
     THEN Then(verifyConstructing(p, {"AttributeValue"}), added)
     ELSE currentAttr(p, added)

\* Parser.finishAttr (thunk): the AttrNode built replaces what was being
\* constructed and is attached to no tag
finishAttr(p) ==
  LET q == IF constructingType(p) = "Attribute" THEN beginAttributeValue(p, FALSE) ELSE p
      finish(r) ==
        LET t == finalizeTextPart(r)
            a == t.currentAttribute
        IN Then(assemble(t, a.parts, a.isQuoted, a.isDynamic),
                LAMBDA u : [u EXCEPT !.currentAttribute =
                              [NoAttr EXCEPT !.constructing = "AttrNode",
                                             !.name = a.name]])
  IN Then(Then(q, LAMBDA r : verifyConstructing(r, {"AttributeValue"})), finish)

\* TokenizerEventHandlers.finishAttributeValue (classic)
finishAttributeValue_classic(p) ==
  LET assembled(r) ==
        LET a == r.currentAttribute
            tag == r.currentNode
            told == IF tag.type = "EndTag"
                    THEN reportError(r, "elements.invalid-attrs-in-end-tag")
                    ELSE r
            pushed(t) ==
              IF tag.type # "StartTag"
              THEN Raise(t, "Error: expected start tag")
              ELSE popState([t EXCEPT !.currentNode.attributes =
                                        Append(@, [name |-> a.name,
                                                   value |-> t.assembled.value]),
                                      !.currentAttribute = NoAttr],
                            "attr:value", FALSE)
        IN IF ~isTag(tag) THEN Raise(r, "Error: expected tag")
           ELSE Then(assembleAttributeValue(told, a.parts, a.isQuoted, a.isDynamic),
                     pushed)
  IN Then(currentAttr(p, finalizeTextPart), assembled)

finishAttributeValue(p) ==
  IF p.pipeline = "thunk" THEN finishAttr(p) ELSE finishAttributeValue_classic(p)

\* ----------------------------------------------------- tokenizer events
Bounded(p) ==
  /\ p.nextId <= MaxNodes + 1
  /\ \A i \in DOMAIN p.currentAttribute.currentPart :
        Len(p.currentAttribute.currentPart[i]) <= MaxTextLen

TagStates == {"tagName", "endTagName", "beforeAttributeName",
              "afterAttributeValueQuoted", "selfClosingStartTag"}

\* `<`: the tokenizer leaves the text for tagOpen; no handler runs
TagOpen ==
  /\ Parsing
  /\ tokenizerState = "beforeData"
  /\ tokenizerState' = "tagOpen"
  /\ parser' = Entered
  /\ UNCHANGED <<frames, outcome, thrown, template>>
  /\ UNCHANGED_call
  /\ UNCHANGED <<walk, located, startTag, scanned, constructing, fired>>

\* `/` after `<`: the tokenizer goes to endTagOpen; no handler runs
EndTagOpen ==
  /\ Parsing
  /\ tokenizerState = "tagOpen"
  /\ tokenizerState' = "endTagOpen"
  /\ parser' = Entered
  /\ UNCHANGED <<frames, outcome, thrown, template>>
  /\ UNCHANGED_call
  /\ UNCHANGED <<walk, located, startTag, scanned, constructing, fired>>

\* the first character of a tag name after `<`: beginStartTag, appendToTagName
BeginStartTag ==
  /\ Parsing
  /\ tokenizerState = "tagOpen"
  /\ parser.nextId <= MaxNodes
  /\ \E char \in TagNameChars :
       Continue(appendToTagName(beginTag(Entered, "StartTag"), char))
  /\ tokenizerState' = "tagName"
  /\ UNCHANGED <<frames, template>>
  /\ UNCHANGED_call
  /\ UNCHANGED <<walk, located, startTag, scanned, constructing, fired>>

\* the first character of a tag name after `</`: beginEndTag, appendToTagName
BeginEndTag ==
  /\ Parsing
  /\ tokenizerState = "endTagOpen"
  /\ \E char \in TagNameChars :
       Continue(appendToTagName(beginTag(Entered, "EndTag"), char))
  /\ tokenizerState' = "endTagName"
  /\ UNCHANGED <<frames, template>>
  /\ UNCHANGED <<pipeline, entry, options>>
  /\ drawn' = [drawn EXCEPT !.endTags = @ + 1]
  /\ UNCHANGED <<walk, located, startTag, scanned, constructing, fired>>

AppendToTagName ==
  /\ Parsing
  /\ tokenizerState \in {"tagName", "endTagName"}
  /\ \E char \in TagNameChars :
       /\ Len(parser.currentNode.name \o char) <= MaxTagNameLen
       /\ Continue(appendToTagName(Entered, char))
  /\ UNCHANGED <<tokenizerState, frames, template>>
  /\ UNCHANGED_call
  /\ UNCHANGED <<walk, located, startTag, scanned, constructing, fired>>

\* TokenizerEventHandlers.markTagAsSelfClosing
markTagAsSelfClosing(p) ==
  IF p.pipeline = "thunk"
  THEN Then(verifyConstructing(p, {"StartTag"}),
            LAMBDA r : [r EXCEPT !.currentNode.selfClosing = TRUE])
  ELSE IF ~isTag(p.currentNode)
  THEN Raise(p, "Error: expected tag")
  ELSE [p EXCEPT !.currentNode.selfClosing = TRUE]

\* the callbacks by which the tokenizer closes the attribute it is in when
\* the tag goes on or ends
closeAttribute(p, state) ==
  IF state \in {"attributeName", "afterAttributeName", "beforeAttributeValue"}
  THEN Then(beginAttributeValue(p, FALSE), finishAttributeValue)
  ELSE IF state = "attributeValueUnquoted" THEN finishAttributeValue(p)
  ELSE p

\* whitespace inside a tag
Space ==
  /\ Parsing
  /\ tokenizerState \in {"tagName", "endTagName", "attributeName",
                         "attributeValueUnquoted", "afterAttributeValueQuoted"}
  /\ Continue(IF tokenizerState = "attributeValueUnquoted"
              THEN finishAttributeValue(Entered) ELSE Entered)
  /\ tokenizerState' = IF tokenizerState = "attributeName"
                       THEN "afterAttributeName" ELSE "beforeAttributeName"
  /\ UNCHANGED <<frames, template>>
  /\ UNCHANGED_call
  /\ UNCHANGED <<walk, located, startTag, scanned, constructing, fired>>

\* `/` inside a tag
Slash ==
  /\ Parsing
  /\ tokenizerState \in (TagStates \cup {"attributeName", "afterAttributeName",
                                        "attributeValueUnquoted"})
                         \ {"selfClosingStartTag"}
  /\ Continue(closeAttribute(Entered, tokenizerState))
  /\ tokenizerState' = "selfClosingStartTag"
  /\ UNCHANGED <<frames, template>>
  /\ UNCHANGED_call
  /\ UNCHANGED <<walk, located, startTag, scanned, constructing, fired>>

\* `=` after an attribute name
Equals ==
  /\ Parsing
  /\ tokenizerState \in {"attributeName", "afterAttributeName"}
  /\ tokenizerState' = "beforeAttributeValue"
  /\ UNCHANGED <<parser, frames, outcome, thrown, template>>
  /\ UNCHANGED_call
  /\ UNCHANGED <<walk, located, startTag, scanned, constructing, fired>>

\* the first character of an attribute name: beginAttribute,
\* appendToAttributeName
BeginAttribute ==
  /\ Parsing
  /\ tokenizerState \in {"beforeAttributeName", "afterAttributeName"}
  /\ drawn.attributes < MaxAttributes
  /\ \E char \in AttrNameChars :
       Continue(Then(Then(closeAttribute(Entered, tokenizerState), beginAttribute),
                     LAMBDA p : appendToAttributeName(p, char)))
  /\ tokenizerState' = "attributeName"
  /\ UNCHANGED <<frames, template>>
  /\ UNCHANGED <<pipeline, entry, options>>
  /\ drawn' = [drawn EXCEPT !.attributes = @ + 1]
  /\ UNCHANGED <<walk, located, startTag, scanned, constructing, fired>>

\* `"` or the first character of an unquoted value: beginAttributeValue
BeginAttributeValue ==
  /\ Parsing
  /\ tokenizerState = "beforeAttributeValue"
  /\ \/ /\ Continue(beginAttributeValue(Entered, TRUE))
        /\ tokenizerState' = "attributeValueDoubleQuoted"
     \/ /\ \E char \in AttrValueChars :
             Continue(Then(beginAttributeValue(Entered, FALSE),
                           LAMBDA p : appendToAttributeValue(p, char)))
        /\ tokenizerState' = "attributeValueUnquoted"
  /\ UNCHANGED <<frames, template>>
  /\ UNCHANGED_call
  /\ UNCHANGED <<walk, located, startTag, scanned, constructing, fired>>

AppendToAttributeValue ==
  /\ Parsing
  /\ tokenizerState \in {"attributeValueDoubleQuoted", "attributeValueUnquoted"}
  /\ \E char \in AttrValueChars :
       /\ Bounded(appendToAttributeValue(Entered, char))
       /\ Continue(appendToAttributeValue(Entered, char))
  /\ UNCHANGED <<tokenizerState, frames, template>>
  /\ UNCHANGED_call
  /\ UNCHANGED <<walk, located, startTag, scanned, constructing, fired>>

\* the closing `"`: finishAttributeValue
FinishAttributeValue ==
  /\ Parsing
  /\ tokenizerState = "attributeValueDoubleQuoted"
  /\ Continue(finishAttributeValue(Entered))
  /\ tokenizerState' = "afterAttributeValueQuoted"
  /\ UNCHANGED <<frames, template>>
  /\ UNCHANGED_call
  /\ UNCHANGED <<walk, located, startTag, scanned, constructing, fired>>

\* `>`: the open attribute is closed, a self-closing tag is marked, finishTag
FinishTag ==
  /\ Parsing
  /\ tokenizerState \in TagStates \cup {"attributeName", "afterAttributeName",
                                       "beforeAttributeValue", "attributeValueUnquoted"}
  /\ LET closed == closeAttribute(Entered, tokenizerState)
         marked == IF tokenizerState = "selfClosingStartTag"
                   THEN markTagAsSelfClosing(closed) ELSE closed
         p == Then(marked, finishTag)
     IN /\ Bounded(p)
        /\ Continue(p)
  /\ tokenizerState' = "beforeData"
  /\ UNCHANGED <<frames, template>>
  /\ UNCHANGED_call
  /\ UNCHANGED <<walk, located, startTag, scanned, constructing, fired>>

\* ------------------------------------------------------- Handlebars nodes
\* asSimpleState on the tokenizer states of the model
asSimpleState(state) ==
  CASE state = "beforeData" -> "top-level"
    [] state = "tagOpen" -> "tag-name:start:before"
    [] state = "endTagOpen" -> "tag-name:end:before"
    [] state = "tagName" -> "tag-name:start:in"
    [] state = "endTagName" -> "tag-name:end:in"
    [] state = "beforeAttributeName" -> "tag:top-level"
    [] state = "afterAttributeValueQuoted" -> "tag:top-level"
    [] state = "attributeName" -> "attribute:name:in"
    [] state = "afterAttributeName" -> "attribute:name:after"
    [] state = "beforeAttributeValue" -> "attribute:value:before"
    [] state = "attributeValueDoubleQuoted" -> "attribute:value:double-quoted"
    [] state = "attributeValueUnquoted" -> "attribute:value:unquoted"
    [] state = "selfClosingStartTag" -> "tag:start:self-closing"

BlockChild(id) == [type |-> "BlockStatement", ref |-> id]

\* BlockStatement up to Program: where a block may stand
BlockStatement_enter(p, state) ==
  IF p.pipeline = "thunk"
  THEN IF asSimpleState(state) = "top-level" THEN p
       ELSE reportError(p, "hbs.syntax.invalid-block")
  ELSE IF state \in {"data", "beforeData"} THEN p
       ELSE Raise(p, "GlimmerSyntaxError: A block may only be used inside an HTML element or another block")

\* BlockStatement after Program: build the block and append it
BlockStatement_exit(p, node) == appendNode(p, BlockChild(node))

\* {{#block as |bp|}} ... : BlockStatement with its Program
BlockStatement ==
  /\ Parsing
  /\ parser.nextId <= MaxNodes
  /\ \E blockParams \in BlockParamChoices, empty \in BOOLEAN :
       LET entered == BlockStatement_enter(Entered, tokenizerState)
           id == parser.nextId
       IN IF empty
          THEN /\ Bounded(Then(Then(entered, LAMBDA p : Program_empty(p, blockParams)),
                               LAMBDA p : BlockStatement_exit(p, id)))
               /\ Continue(Then(Then(entered, LAMBDA p : Program_empty(p, blockParams)),
                                LAMBDA p : BlockStatement_exit(p, id)))
               /\ UNCHANGED frames
          ELSE LET p == Then(entered, LAMBDA q : Program_enter(q, blockParams))
               IN /\ Continue(p)
                  /\ frames' = IF p.raised = NoRaise
                               THEN Append(frames, [node |-> id, kind |-> "Block"])
                               ELSE frames
  /\ UNCHANGED <<tokenizerState, template>>
  /\ UNCHANGED_call
  /\ UNCHANGED <<walk, located, startTag, scanned, constructing, fired>>

\* builder.mustache over builder.head: the path head is classified against
\* the scope of the current builder
mustache(p, name) ==
  Value("MustacheStatement", name, declaration(builder(p), name), <<>>)

\* addElementModifier on the start tag under construction
addElementModifier(p) ==
  LET added(r) == [r EXCEPT !.currentNode.modifiers = @ + 1]
  IN IF p.pipeline = "thunk"
     THEN Then(verifyConstructing(p, {"StartTag"}), added)
     ELSE IF p.currentNode.type # "StartTag"
     THEN Raise(p, "Error: expected start tag")
     ELSE added(p)

\* a dynamic part pushed without the text run before it being finished first
appendDynamicAttributeValuePart_unfinishedText(p, part) ==
  [p EXCEPT !.currentAttribute.isDynamic = TRUE,
            !.currentAttribute.parts = Append(@, part)]

\* ConstructingAttributeValue.dynamic (thunk) /
\* appendDynamicAttributeValuePart (classic)
appendDynamicAttributeValuePart(p, part) ==
  LET pushed(r) ==
        LET t == finalizeTextPart(r)
        IN [t EXCEPT !.currentAttribute.isDynamic = TRUE,
                     !.currentAttribute.parts = Append(@, part)]
  IN IF p.pipeline = "thunk"
     THEN Then(verifyConstructing(p, {"AttributeValue"}), pushed)
     ELSE currentAttr(p, pushed)

invalidCurly(p) == reportError(p, "html.syntax.invalid-hbs-curly")

\* HandlebarsNodeVisitors.MustacheStatement (thunk), by simplified state
MustacheStatement_thunk(p, state, m) ==
  CASE state \in {"tag-name:start:before", "tag-name:start:in", "tag-name:end:in"} ->
         invalidCurly(p)
    [] state = "tag:top-level" -> addElementModifier(p)
    [] state \in {"attribute:name:in", "attribute:name:after"} ->
         Then(finishAttr(p), addElementModifier)
    [] state = "attribute:value:before" ->
         Then(beginAttributeValue(p, FALSE),
              LAMBDA r : appendDynamicAttributeValuePart(r, m))
    [] state \in {"attribute:value:double-quoted", "attribute:value:single-quoted",
                  "attribute:value:unquoted"} ->
         appendDynamicAttributeValuePart(p, m)
    [] OTHER -> appendNode(p, m)

\* HandlebarsNodeVisitors.MustacheStatement (classic), by tokenizer state
MustacheStatement_classic(p, state, m) ==
  CASE state \in {"tagOpen", "tagName"} -> invalidCurly(p)
    [] state \in {"beforeAttributeName", "afterAttributeValueQuoted"} ->
         addElementModifier(p)
    [] state \in {"attributeName", "afterAttributeName"} ->
         Then(Then(beginAttributeValue(p, FALSE), finishAttributeValue),
              addElementModifier)
    [] state = "beforeAttributeValue" ->
         Then(beginAttributeValue(p, FALSE),
              LAMBDA r : appendDynamicAttributeValuePart(r, m))
    [] state \in {"attributeValueDoubleQuoted", "attributeValueSingleQuoted",
                  "attributeValueUnquoted"} ->
         appendDynamicAttributeValuePart(p, m)
    [] OTHER -> appendNode(p, m)

\* the tokenizer state MustacheStatement leaves behind (transitionTo)
MustacheStatement_transition(pl, state) ==
  CASE state \in {"attributeName", "afterAttributeName", "afterAttributeValueQuoted"} ->
         "beforeAttributeName"
    [] state = "beforeAttributeValue" -> "attributeValueUnquoted"
    [] OTHER -> state

\* {{name}}
MustacheStatement ==
  /\ Parsing
  /\ drawn.mustaches < MaxMustaches
  /\ \E name \in Names :
       LET built == IF Len(parser.builderStack) = 0
                    THEN Raise(Entered, "TypeError: cannot read properties of null")
                    ELSE Entered
           m == mustache(Entered, name)
           p == Then(built,
                     LAMBDA r : IF r.pipeline = "thunk"
                                THEN MustacheStatement_thunk(r, asSimpleState(tokenizerState), m)
                                ELSE MustacheStatement_classic(r, tokenizerState, m))
       IN /\ Bounded(p)
          /\ Continue(p)
  /\ tokenizerState' = MustacheStatement_transition(pipeline, tokenizerState)
  /\ UNCHANGED <<frames, template>>
  /\ UNCHANGED <<pipeline, entry, options>>
  /\ drawn' = [drawn EXCEPT !.mustaches = @ + 1]
  /\ UNCHANGED <<walk, located, startTag, scanned, constructing, fired>>

\* the children of the innermost Program are exhausted
Program_end ==
  /\ outcome = "parsing"
  /\ Len(frames) > 0
  /\ LET frame == Top(frames)
         exited == Program_exit(Entered, frame.node)
     IN IF frame.kind = "Block"
        THEN /\ Continue(Then(exited, LAMBDA p : BlockStatement_exit(p, frame.node)))
             /\ frames' = Pop(frames)
             /\ UNCHANGED template
        ELSE /\ parser' = exited
             /\ frames' = Pop(frames)
             /\ IF exited.raised # NoRaise
                THEN /\ outcome' = "threw"
                     /\ thrown' = exited.raised
                     /\ UNCHANGED template
                ELSE /\ outcome' = "accepted"
                     /\ template' = acceptTemplate(exited)
                     /\ UNCHANGED thrown
  /\ UNCHANGED tokenizerState
  /\ UNCHANGED_call
  /\ UNCHANGED <<walk, located, startTag, scanned, constructing, fired>>

\* ------------------------------------------------------------ preprocess
\* NormalizedPreprocessOptions.create: mode.errors
create_errors(opts) ==
  IF opts = "undefined" \/ opts = "{throwErrors: true}" THEN "throw" ELSE "report"

\* the options reaching create: template() defaults a missing options
\* record to {}, preprocess.normalized takes what normalize(module) built
normalize(how, opts) ==
  IF how = "preprocess" /\ opts = "undefined" THEN create_errors("{}")
  ELSE create_errors(opts)

\* SourceTemplate.preprocess once the parse has come back
Preprocess_finish ==
  /\ outcome = "accepted"
  /\ entry' \in Entries
  /\ options' \in Options
  /\ IF template.hasErrors
     THEN IF normalize(entry', options') = "throw"
          THEN /\ outcome' = "threw"
               /\ thrown' = template.errors[1]
          ELSE /\ outcome' = "returned"
               /\ UNCHANGED thrown
     ELSE /\ outcome' = "returned"
          /\ UNCHANGED thrown
  /\ UNCHANGED <<pipeline, tokenizerState, parser, frames, template, drawn>>
  /\ UNCHANGED <<walk, located, startTag, scanned, constructing, fired>>

Next ==
  \/ AcceptTemplate_begin
  \/ TagOpen
  \/ EndTagOpen
  \/ BeginStartTag
  \/ BeginEndTag
  \/ AppendToTagName
  \/ Space
  \/ Slash
  \/ Equals
  \/ BeginAttribute
  \/ BeginAttributeValue
  \/ AppendToAttributeValue
  \/ FinishAttributeValue
  \/ FinishTag
  \/ MustacheStatement
  \/ BlockStatement
  \/ Program_end
  \/ Preprocess_finish

Spec == Init /\ [][Next]_vars

\* ------------------------------------------------------------ properties
OpenElement(p) ==
  /\ Len(p.parentStack) > 0
  /\ p.nodes[Top(p.parentStack)].type = "ElementNode"

\* the handler of this step is finishTag on an end tag
FinishEndTagStep ==
  /\ FinishTag
  /\ tokenizerState \in {"endTagName", "beforeAttributeName"}
  /\ parser.currentNode.type = "EndTag"

\* C1: when an end tag fails validation (mismatch, nothing open, void
\* name), handling it leaves the parent stack as it was before the end tag
C1_FailedEndTagKeepsParentStack ==
  [][(FinishEndTagStep /\ parser'.raised = NoRaise /\ ~parser'.valid)
       => parser'.parentStack = parser.parentStack]_vars

\* C2: when the body of a template or block has been accepted and the
\* container on top of the parent stack is an element the body left open,
\* elements.unclosed-element is reported and nothing is raised
C2_UnclosedElementReported ==
  [][(Program_end /\ OpenElement(parser))
       => /\ parser'.raised = NoRaise
          /\ parser'.reported = Append(parser.reported, "elements.unclosed-element")]_vars

\* C3: a caller that does not set throwErrors gets a Template back with
\* every diagnostic of the parse attached; none is thrown
C3_DefaultCollectsDiagnostics ==
  (options \in {"undefined", "{}"} /\ isPresent(parser.reported))
    => /\ outcome = "returned"
       /\ template.hasErrors
       /\ template.errors = parser.reported

\* C4: with throwErrors set, a parse that reports at least one diagnostic
\* throws the first one reported.  A call that raised with the options
\* unread raised for every value of the options.
C4_ThrowErrorsThrowsFirst ==
  /\ (options = "{throwErrors: true}" /\ isPresent(parser.reported))
       => (outcome = "threw" /\ thrown = parser.reported[1])
  /\ (options = "unread" /\ outcome = "threw" /\ isPresent(parser.reported))
       => thrown = parser.reported[1]

OpenBlockParams(p) ==
  UNION {p.nodes[p.parentStack[i]].blockParams : i \in 1..Len(p.parentStack)}

\* C6: at every point of a parse the names classified as local are the
\* block params of the elements and blocks currently open
C6_LocalsAreOpenBlockParams ==
  (outcome = "parsing" /\ parser.raised = NoRaise /\ isPresent(parser.builderStack))
    => \A name \in Names :
         declaration(builder(parser), name) = "internal"
           <=> name \in OpenBlockParams(parser)

\* the template was a single finished end tag whose name is not void (a
\* void name is answered with elements.unnecessary-end-tag first)
OnlyEndTag ==
  /\ frames = <<>>
  /\ outcome # "constructed"
  /\ tokenizerState = "beforeData"
  /\ parser.nextId = 2
  /\ drawn = [attributes |-> 0, mustaches |-> 0, endTags |-> 1]
  /\ isPresent(parser.reported) => parser.reported[1] = "elements.end-without-start-tag"

\* C7: an end tag with no element open yields exactly one diagnostic,
\* elements.end-without-start-tag, raises nothing, and the tree comes back
\* with that diagnostic
C7_EndTagWithoutStartTag ==
  OnlyEndTag
    => /\ parser.raised = NoRaise
       /\ parser.reported = <<"elements.end-without-start-tag">>
       /\ outcome \in {"accepted", "returned"} => template.errors = parser.reported

\* the template ended inside its only start tag
EndedInStartTag ==
  /\ frames = <<>>
  /\ outcome # "constructed"
  /\ parser.nextId = 2
  /\ parser.currentNode.type = "StartTag"
  /\ tokenizerState \notin {"beforeData"}

\* C8: a template that ends inside a start tag never closed with `>` yields
\* exactly one diagnostic and raises nothing
C8_UnterminatedStartTag ==
  EndedInStartTag
    => /\ parser.raised = NoRaise
       /\ Len(parser.reported) = 1
       /\ outcome \in {"accepted", "returned"} => Len(template.errors) >= 1

\* one dynamic part, optionally followed by the text "/"
OneDynamicPart(parts) ==
  /\ Len(parts) \in {1, 2}
  /\ parts[1].type = "MustacheStatement"
  /\ Len(parts) = 2 => parts[2] = TextNode("/")

\* this step is finishAttributeValue, called for the whitespace after the
\* unquoted dynamic value of an attribute of a start tag
AssembledUnquotedDynamic ==
  /\ Space
  /\ tokenizerState = "attributeValueUnquoted"
  /\ parser.currentNode.type = "StartTag"
  /\ parser'.assembled.called
  /\ parser'.assembled.isDynamic
  /\ ~parser'.assembled.isQuoted

\* C9: an unquoted value with more than one dynamic part, or a dynamic part
\* with extra text, is reported as attrs.invalid-attr-value, not raised, and
\* the attribute's value is the placeholder TextNode
C9_InvalidUnquotedValueReported ==
  [][(AssembledUnquotedDynamic /\ ~OneDynamicPart(parser'.assembled.parts))
       => /\ parser'.raised = NoRaise
          /\ parser'.reported = Append(parser.reported, "attrs.invalid-attr-value")
          /\ parser'.assembled.value = Placeholder]_vars

\* C10: an unquoted value of one dynamic part, optionally followed by "/",
\* is accepted without diagnostic or exception and is that dynamic part
C10_SingleDynamicPartAccepted ==
  [][(AssembledUnquotedDynamic /\ OneDynamicPart(parser'.assembled.parts))
       => /\ parser'.raised = NoRaise
          /\ parser'.reported = parser.reported
          /\ parser'.assembled.value = parser'.assembled.parts[1]]_vars


\* the MustacheStatement handler ran while the tokenizer was in a tag name
MustacheInTagName ==
  /\ drawn'.mustaches = drawn.mustaches + 1
  /\ tokenizerState \in {"tagOpen", "tagName", "endTagOpen", "endTagName"}

\* C11: a mustache met in a tag-name state (before or in the name of a start
\* or an end tag) reports html.syntax.invalid-hbs-curly, raises nothing and
\* attaches nothing: the nodes, the tag and the attribute under construction
\* are as they were.
C11_MustacheInTagNameIsAnError ==
  [][MustacheInTagName =>
       /\ parser'.raised = NoRaise
       /\ parser'.reported = Append(parser.reported, "html.syntax.invalid-hbs-curly")
       /\ parser'.nodes = parser.nodes
       /\ parser'.currentNode = parser.currentNode
       /\ parser'.currentAttribute = parser.currentAttribute]_vars

\* a handler that begins by popping the parent stack: the end of a Program,
\* or finishTag on an end tag
PopsParent ==
  \/ Len(frames') < Len(frames)
  \/ FinishEndTagStep

\* C12: a pop that no push matches raises at once and records no user
\* diagnostic: a handler that pops the parent stack while it is empty ends
\* raised with the errors list as it was, and the initial scope of the
\* builder stack, which no pushScope put there, is never popped by a call
\* that comes back.
C12_UnbalancedPopRaises ==
  [][/\ (PopsParent /\ Len(parser.parentStack) = 0)
          => (parser'.raised # NoRaise /\ parser'.errors = parser.errors)
     /\ (Len(parser.builderStack) >= 1 /\ Len(parser'.builderStack) = 0)
          => parser'.raised # NoRaise]_vars

\* ============================================================ traversal
\* An AST node as traverse and Walker see it.  The fields are the child
\* keys of the node types: body (Template, Block), attributes and children
\* (ElementNode), value (AttrNode), program (BlockStatement).  A singular
\* field holds one node, written as a sequence of length one; the keys a
\* type does not have are empty.
ASTNode(type, name, attributes, children, body, value, program) ==
  [type |-> type, name |-> name, attributes |-> attributes,
   children |-> children, body |-> body, value |-> value, program |-> program]

Mustache(name) == ASTNode("MustacheStatement", name, <<>>, <<>>, <<>>, <<>>, <<>>)
Attr(name, value) == ASTNode("AttrNode", name, <<>>, <<>>, <<>>, <<value>>, <<>>)
Element(tag, attributes, children) ==
  ASTNode("ElementNode", tag, attributes, children, <<>>, <<>>, <<>>)
Block(body) == ASTNode("Block", "", <<>>, <<>>, body, <<>>, <<>>)
BlockStmt(name, body) ==
  ASTNode("BlockStatement", name, <<>>, <<>>, <<>>, <<>>, <<Block(body)>>)
Template(body) == ASTNode("Template", "", <<>>, <<>>, body, <<>>, <<>>)

\* the child keys of each node type, in the order they are visited
visitorKeys(type) ==
  CASE type \in {"Template", "Block"} -> <<"body">>
    [] type = "ElementNode" -> <<"attributes", "children">>
    [] type = "AttrNode" -> <<"value">>
    [] type = "BlockStatement" -> <<"program">>
    [] OTHER -> <<>>

\* the keys that hold an array of nodes
isArrayKey(key) == key \in {"body", "attributes", "children"}

\* ------------------------------------------------ what a callback returns
Undef == [kind |-> "undefined", nodes |-> <<>>]
Null == [kind |-> "null", nodes |-> <<>>]

NoError == [message |-> "none", node |-> Mustache(""), parent |-> Mustache(""), key |-> ""]

\* traversal/errors.ts
TraversalError(message, node, parent, key) ==
  [message |-> message, node |-> node, parent |-> parent, key |-> key]

\* the node and its parent handed over in the wrong order
cannotRemoveNode_swapped(node, parent, key) ==
  TraversalError("Cannot remove a node unless it is part of an array", parent, node, key)

cannotRemoveNode(node, parent, key) ==
  TraversalError("Cannot remove a node unless it is part of an array", node, parent, key)

\* the message of the other error
cannotReplaceNode_removeMessage(node, parent, key) ==
  TraversalError("Cannot remove a node unless it is part of an array", node, parent, key)

cannotReplaceNode(node, parent, key) ==
  TraversalError("Cannot replace a node with multiple nodes unless it is part of an array",
                 node, parent, key)

\* A visitor of the tests: for the node types in `types` it has an enter and
\* an exit callback; a callback answers a node whose name a rule of its
\* event matches with null, with a node or with an array of nodes (the node
\* under another name, as b.mustache(name) and b.block(name, ...program)
\* build them), and every other node with undefined.
callback(visitor, event, node) ==
  LET rs == {r \in visitor.rules :
               r.event = event /\ r.type = node.type /\ r.match = node.name}
  IN IF rs = {} THEN Undef
     ELSE LET r == CHOOSE r \in rs : TRUE
          IN [kind |-> r.kind,
              nodes |-> [i \in 1..Len(r.to) |-> [node EXCEPT !.name = r.to[i]]]]

hasHandler(visitor, type) == type \in visitor.types

Called(plugin, event, node, result) ==
  [plugin |-> plugin, event |-> event, type |-> node.type, name |-> node.name,
   returned |-> result.kind]

\* ------------------------------------------------------------- traverse
\* A visit yields the callback's answer (result), the node as the visit
\* left it (node), the callbacks called so far (log) and the error raised.
Visited(result, node, log, error) ==
  [result |-> result, node |-> node, log |-> log, error |-> error]

\* an array result taken for its first node only
resultNodes_onlyFirst(result) ==
  IF Len(result.nodes) = 0 THEN <<>> ELSE <<result.nodes[1]>>

\* the nodes a result stands for in an array position
resultNodes(result) == result.nodes

\* splice with a delete count of two
spliceArray_deletesTwo(array, index, result) ==
  SubSeq(array, 1, index - 1) \o resultNodes(result)
    \o SubSeq(array, index + 2, Len(array))

\* spliceArray: the result of visiting array[index] takes its place
spliceArray(array, index, result) ==
  SubSeq(array, 1, index - 1) \o resultNodes(result)
    \o SubSeq(array, index + 1, Len(array))

\* assignKey: the result of visiting the node of a singular field; the
\* error, or the parent with the field set
assignKey(node, key, value, result) ==
  CASE result.kind = "null" ->
         [error |-> cannotRemoveNode(value, node, key), node |-> node]
    [] result.kind = "array" /\ Len(result.nodes) = 0 ->
         [error |-> cannotRemoveNode(value, node, key), node |-> node]
    [] result.kind = "array" /\ Len(result.nodes) > 1 ->
         [error |-> cannotReplaceNode(value, node, key), node |-> node]
    [] OTHER ->
         [error |-> NoError, node |-> [node EXCEPT ![key] = <<result.nodes[1]>>]]

\* exit called for the node whatever became of it
leave_ignoringReplaced(visitor, node, visited, replaced) ==
  IF visited.error # NoError \/ ~hasHandler(visitor, node.type)
  THEN visited
  ELSE LET left == callback(visitor, "exit", visited.node)
           log == Append(visited.log, Called(visitor.plugin, "exit", visited.node, left))
       IN IF replaced
          THEN [visited EXCEPT !.log = log]
          ELSE Visited(left, visited.node, log, NoError)

\* the end of a visit: a node that was not replaced gets its exit callback,
\* whose answer is the result of the visit
leave(visitor, node, visited, replaced) ==
  IF replaced \/ visited.error # NoError \/ ~hasHandler(visitor, node.type)
  THEN visited
  ELSE LET left == callback(visitor, "exit", visited.node)
       IN Visited(left, visited.node,
                  Append(visited.log, Called(visitor.plugin, "exit", visited.node, left)),
                  NoError)

RECURSIVE visitNode(_, _, _)
RECURSIVE visitArray(_, _, _, _)

\* the replacement taken as it was answered, its callbacks never called
visitReplacement_skipped(visitor, replacement, log) ==
  Visited(Undef, replacement, log, NoError)

\* the node a callback answered is visited in its turn: its own callbacks
\* are called, then its keys are visited
visitReplacement(visitor, replacement, log) ==
  visitNode(visitor, replacement, log)

RECURSIVE visitKeys(_, _, _, _)

\* the index moves on by one whatever took the place of the node
visitArray_byOne(visitor, array, i, log) ==
  IF i > Len(array)
  THEN [array |-> array, log |-> log, error |-> NoError]
  ELSE LET v == visitNode(visitor, array[i], log)
       IN IF v.error # NoError
          THEN [array |-> array, log |-> v.log, error |-> v.error]
          ELSE IF v.result.kind = "undefined"
          THEN visitArray(visitor, [array EXCEPT ![i] = v.node], i + 1, v.log)
          ELSE visitArray(visitor, spliceArray(array, i, v.result), i + 1, v.log)

\* visitArray from index i on: every node is visited where it stands, and
\* the index moves past whatever took its place
visitArray(visitor, array, i, log) ==
  IF i > Len(array)
  THEN [array |-> array, log |-> log, error |-> NoError]
  ELSE LET v == visitNode(visitor, array[i], log)
       IN IF v.error # NoError
          THEN [array |-> array, log |-> v.log, error |-> v.error]
          ELSE IF v.result.kind = "undefined"
          THEN visitArray(visitor, [array EXCEPT ![i] = v.node], i + 1, v.log)
          ELSE visitArray(visitor, spliceArray(array, i, v.result),
                          i + Len(resultNodes(v.result)), v.log)

\* visitKey for the keys of the node from the k-th on
visitKeys(visitor, node, k, log) ==
  IF k > Len(visitorKeys(node.type))
  THEN Visited(Undef, node, log, NoError)
  ELSE LET key == visitorKeys(node.type)[k]
           value == node[key]
       IN IF isArrayKey(key)
          THEN LET a == visitArray(visitor, value, 1, log)
                   n == [node EXCEPT ![key] = a.array]
               IN IF a.error # NoError
                  THEN Visited(Undef, n, a.log, a.error)
                  ELSE visitKeys(visitor, n, k + 1, a.log)
          ELSE IF Len(value) = 0
          THEN visitKeys(visitor, node, k + 1, log)
          ELSE LET v == visitNode(visitor, value[1], log)
                   kept == [node EXCEPT ![key] = <<v.node>>]
                   set == assignKey(kept, key, v.node, v.result)
               IN IF v.error # NoError
                  THEN Visited(Undef, kept, v.log, v.error)
                  ELSE IF v.result.kind = "undefined"
                  THEN visitKeys(visitor, kept, k + 1, v.log)
                  ELSE IF set.error # NoError
                  THEN Visited(Undef, kept, v.log, set.error)
                  ELSE visitKeys(visitor, set.node, k + 1, v.log)

\* visitNode: enter; a replacement is visited in the place of the node and
\* the node gets no exit; otherwise the children, then exit
visitNode(visitor, node, log) ==
  LET handled == hasHandler(visitor, node.type)
      answer == IF handled THEN callback(visitor, "enter", node) ELSE Undef
      entered == IF handled
                 THEN Append(log, Called(visitor.plugin, "enter", node, answer))
                 ELSE log
      \* a callback that hands back a node equal to its argument replaces nothing
      result == IF answer.kind = "node" /\ answer.nodes[1] = node THEN Undef ELSE answer
      visited ==
        CASE result.kind = "null" -> Visited(result, node, entered, NoError)
          [] result.kind = "array" ->
               LET a == visitArray(visitor, result.nodes, 1, entered)
               IN Visited([kind |-> "array", nodes |-> a.array], node, a.log, a.error)
          [] result.kind = "node" ->
               LET v == visitReplacement(visitor, result.nodes[1], entered)
               IN IF v.error # NoError \/ v.result.kind # "undefined"
                  THEN Visited(v.result, node, v.log, v.error)
                  ELSE Visited([kind |-> "node", nodes |-> <<v.node>>], node, v.log, NoError)
          [] OTHER -> visitKeys(visitor, node, 1, entered)
  IN leave(visitor, node, visited, result.kind # "undefined")

\* traverse(node, visitor): the root is visited; what the callbacks answer
\* for the root itself goes nowhere
traverse(node, visitor, log) == visitNode(visitor, node, log)

\* ---------------------------------------------------------------- Walker
RECURSIVE Walker_visit(_)
RECURSIVE Walker_visitAll(_)

\* the children the Walker descends into
Walker_children(node) ==
  CASE node.type \in {"Template", "Block"} -> node.body
    [] node.type = "ElementNode" -> node.children
    [] node.type = "BlockStatement" -> node.program
    [] OTHER -> <<>>

Walker_visitAll(nodes) ==
  IF Len(nodes) = 0 THEN <<>>
  ELSE Walker_visit(nodes[1]) \o Walker_visitAll(Tail(nodes))

\* the callback called for a node once its children are done
Walker_visit_postOrder(node) ==
  Walker_visitAll(Walker_children(node)) \o <<node.type>>

\* Walker.visit with a callback that records node.type
Walker_visit(node) == <<node.type>> \o Walker_visitAll(Walker_children(node))

\* --------------------------------------------------- plugins at work
MaxPlugins == 2      \* AST plugins registered in options.plugins.ast

\* the templates of the traversal tests, as parsed
Templates ==
  { Template(<<Mustache("x"), Mustache("y"), Mustache("z")>>),
    Template(<<Mustache("x")>>),
    Template(<<Element("x", <<Attr("y", Mustache("z"))>>, <<>>)>>),
    Template(<<Mustache("y"),
               BlockStmt("w", <<Mustache("x"), Mustache("y"), Mustache("z")>>)>>),
    Template(<<Element("div", <<>>, <<Element("li", <<>>, <<>>)>>)>>),
    Template(<<BlockStmt("foo", <<Element("li", <<>>, <<>>)>>)>>) }

Rule(event, type, match, kind, to) ==
  [event |-> event, type |-> type, match |-> match, kind |-> kind, to |-> to]

\* what the transforms of the tests answer: null, [], a node, [a node],
\* two nodes
Answers ==
  { [kind |-> "null", to |-> <<>>], [kind |-> "array", to |-> <<>>],
    [kind |-> "node", to |-> <<"a">>], [kind |-> "array", to |-> <<"a">>],
    [kind |-> "array", to |-> <<"a", "b">>] }

\* x -> y with y -> z
Chain(event) ==
  { Rule(event, "MustacheStatement", "x", "node", <<"y">>),
    Rule(event, "MustacheStatement", "y", "node", <<"z">>) }

\* a block renamed around its program, with a mustache of the program renamed
Renaming(event) ==
  { Rule(event, "BlockStatement", "w", "node", <<"v">>),
    Rule(event, "MustacheStatement", "x", "node", <<"a">>) }

Transforms(event) ==
  { {Rule(event, "MustacheStatement", m, ans.kind, ans.to)} :
      m \in {"y", "z"}, ans \in Answers }
  \cup {Chain(event), Renaming(event)}

Visitors ==
  { [types |-> {"MustacheStatement", "BlockStatement"}, rules |-> t] :
      t \in Transforms("enter") \cup Transforms("exit") }

PluginLists ==
  UNION { [1..n -> Visitors] : n \in 0..MaxPlugins }

\* the plugins taken last to first
nextPlugin_reversed(w) == w.plugins[Len(w.plugins) + 1 - w.next]

\* applyPlugins takes the plugins in the order of options.plugins.ast
nextPlugin(w) == w.plugins[w.next]

\* one turn of the loop of applyPlugins: transform(env), then traverse
ApplyPlugin ==
  /\ walk.phase = "plugins"
  /\ walk.next <= Len(walk.plugins)
  /\ LET plugin == nextPlugin(walk)
         visitor == [types |-> plugin.types, rules |-> plugin.rules,
                     plugin |-> walk.next]
         v == traverse(walk.ast, visitor, walk.log)
     IN walk' = IF v.error # NoError
                THEN [walk EXCEPT !.phase = "threw", !.ast = v.node,
                                  !.log = v.log, !.error = v.error]
                ELSE [walk EXCEPT !.ast = v.node, !.log = v.log,
                                  !.next = @ + 1,
                                  !.trees = Append(@, v.node)]
  /\ UNCHANGED <<pipeline, entry, options, tokenizerState, parser, frames,
                 outcome, thrown, template, drawn, located, startTag, scanned, constructing, fired>>

\* the loop is over: applyPlugins returns the template
ApplyPlugins_return ==
  /\ walk.phase = "plugins"
  /\ walk.next > Len(walk.plugins)
  /\ walk' = [walk EXCEPT !.phase = "returned", !.returned = <<walk.ast>>]
  /\ UNCHANGED <<pipeline, entry, options, tokenizerState, parser, frames,
                 outcome, thrown, template, drawn, located, startTag, scanned, constructing, fired>>

\* new Walker().visit(ast, node => nodes.push(node.type))
Walk ==
  /\ walk.phase = "returned"
  /\ walk' = [walk EXCEPT !.phase = "walked",
                          !.walked = Walker_visit(walk.returned[1])]
  /\ UNCHANGED <<pipeline, entry, options, tokenizerState, parser, frames,
                 outcome, thrown, template, drawn, located, startTag, scanned, constructing, fired>>

\* SourceTemplate.preprocess has parsed a template without errors and calls
\* applyPlugins on it
TraversalInit ==
  /\ pipeline = "classic"
  /\ entry = "preprocess"
  /\ options = "{}"
  /\ tokenizerState = "beforeData"
  /\ parser = InitParser(pipeline)
  /\ frames = <<>>
  /\ outcome = "accepted"
  /\ thrown = NoRaise
  /\ template = [hasErrors |-> FALSE, errors |-> <<>>]
  /\ drawn = [attributes |-> 0, mustaches |-> 0, endTags |-> 0]
  /\ \E ast \in Templates, plugins \in PluginLists :
       walk = [phase |-> "plugins", source |-> ast, ast |-> ast,
               plugins |-> plugins, next |-> 1, log |-> <<>>,
               trees |-> <<>>, error |-> NoError, returned |-> <<>>,
               walked |-> <<>>]
  /\ located = NoSource
  /\ startTag = NoStartTag
  /\ scanned = NoLocals
  /\ constructing = NotConstructing
  /\ fired = NoCallback

TraversalNext ==
  \/ ApplyPlugin
  \/ ApplyPlugins_return
  \/ Walk

TraversalSpec == TraversalInit /\ [][TraversalNext]_vars

\* ------------------------------------------- what a visitor is meant to do
\* The statements a statement ends as under the rules of a visitor: an
\* enter rule is applied to what it answers as well, an exit rule once, to
\* the node whose children have been rewritten.
RECURSIVE Image(_, _)
RECURSIVE Images(_, _)
RECURSIVE Rewritten(_, _)

Images(visitor, nodes) ==
  IF Len(nodes) = 0 THEN <<>>
  ELSE Image(visitor, nodes[1]) \o Images(visitor, Tail(nodes))

Single(visitor, field) ==
  IF Len(field) = 1 /\ Len(Image(visitor, field[1])) = 1
  THEN Image(visitor, field[1])
  ELSE field

Rewritten(visitor, node) ==
  [node EXCEPT !.attributes = Images(visitor, @),
               !.children = Images(visitor, @),
               !.body = Images(visitor, @),
               !.value = Single(visitor, @),
               !.program = Single(visitor, @)]

Image(visitor, node) ==
  LET enter == callback(visitor, "enter", node)
      inner == Rewritten(visitor, node)
      exit == callback(visitor, "exit", inner)
  IN IF ~hasHandler(visitor, node.type) THEN <<inner>>
     ELSE IF enter.kind # "undefined" THEN Images(visitor, enter.nodes)
     ELSE IF exit.kind # "undefined" THEN exit.nodes
     ELSE <<inner>>

\* the tree after the first k plugins of the list, one after another
RECURSIVE InOrder(_, _, _)
InOrder(plugins, k, ast) ==
  IF k = 0 THEN ast
  ELSE Rewritten(plugins[k], InOrder(plugins, k - 1, ast))

Reversed(seq) == [i \in 1..Len(seq) |-> seq[Len(seq) + 1 - i]]

\* C13: the plugins run one after another in the order registered: the
\* callbacks of plugin k are all called before any callback of plugin k+1,
\* each plugin rewrites the tree the one before it left, and the tree
\* handed back is the one the last plugin left.
C13_PluginsRunInRegistrationOrder ==
  /\ \A i, j \in DOMAIN walk.log : i <= j => walk.log[i].plugin <= walk.log[j].plugin
  /\ \A k \in DOMAIN walk.trees : walk.trees[k] = InOrder(walk.plugins, k, walk.source)
  /\ walk.phase \in {"returned", "walked"}
       => walk.returned = <<InOrder(walk.plugins, Len(walk.plugins), walk.source)>>

\* two plugins whose order matters have run and the tree has been handed back
C13_Witness ==
  /\ walk.phase = "returned"
  /\ Len(walk.plugins) = 2
  /\ walk.returned # <<walk.source>>
  /\ InOrder(Reversed(walk.plugins), 2, walk.source)
       # InOrder(walk.plugins, 2, walk.source)

\* ------------------------------------------------ one plugin, one rule
\* a turn of the loop of applyPlugins that came back
Traversed ==
  /\ walk.phase = "plugins"
  /\ walk'.phase = "plugins"
  /\ walk'.next = walk.next + 1

\* a turn of the loop of applyPlugins that raised
TraversalThrew ==
  /\ walk.phase = "plugins"
  /\ walk'.phase = "threw"

\* the rule of a plugin that has one rule
TheRule(plugin) == CHOOSE r \in plugin.rules : TRUE

Removes(plugin) ==
  /\ Cardinality(plugin.rules) = 1
  /\ \/ TheRule(plugin).kind = "null"
     \/ TheRule(plugin).kind = "array" /\ TheRule(plugin).to = <<>>

\* where the statements of an array are mustaches of the name
Occurrences(array, name) ==
  {i \in DOMAIN array : array[i].type = "MustacheStatement" /\ array[i].name = name}

FlatStatements(array) == \A i \in DOMAIN array : array[i].type = "MustacheStatement"

Without(array, i) ==
  [k \in 1..(Len(array) - 1) |-> IF k < i THEN array[k] ELSE array[k + 1]]

\* C14: when a callback (enter or exit) answers null or [] for the node at
\* index i of an array, the array afterwards is the array without element i:
\* in the body of the template, and in the body of a block of the template.
C14_RemovalRemovesExactlyTheNode ==
  [][(Traversed /\ Removes(nextPlugin(walk)))
       => LET m == TheRule(nextPlugin(walk)).match
              body == walk.ast.body
              after == walk'.ast.body
          IN /\ \A i \in DOMAIN body :
                  (FlatStatements(body) /\ Occurrences(body, m) = {i})
                    => after = Without(body, i)
             /\ Occurrences(body, m) = {}
                  => /\ Len(after) = Len(body)
                     /\ \A p \in DOMAIN body, i \in 1..3 :
                          (/\ body[p].type = "BlockStatement"
                           /\ FlatStatements(body[p].program[1].body)
                           /\ Occurrences(body[p].program[1].body, m) = {i})
                            => after[p].program[1].body
                                 = Without(body[p].program[1].body, i)]_vars

\* the first plugin took the middle one of three statements away
C14_Witness ==
  /\ Len(walk.trees) >= 1
  /\ Removes(walk.plugins[1])
  /\ Len(walk.source.body) = 3
  /\ FlatStatements(walk.source.body)
  /\ Occurrences(walk.source.body, TheRule(walk.plugins[1]).match) = {2}
  /\ walk.trees[1].body = <<walk.source.body[1], walk.source.body[3]>>

Splices(plugin) ==
  /\ Cardinality(plugin.rules) = 1
  /\ TheRule(plugin).kind = "array"
  /\ Len(TheRule(plugin).to) >= 2

\* the mustaches a rule answers with
Named(to) == [k \in DOMAIN to |-> Mustache(to[k])]

\* the array with the nodes in the place of its one occurrence, if any
InsertedAt(array, occurrences, nodes) ==
  IF occurrences = {} THEN array
  ELSE LET i == CHOOSE i \in occurrences : TRUE
       IN SubSeq(array, 1, i - 1) \o nodes \o SubSeq(array, i + 1, Len(array))

\* the body of the block of a block statement
Inner(statement) == statement.program[1].body

\* mustaches, and blocks of mustaches, with the name at most once in each array
SimpleBody(body, name) ==
  /\ Cardinality(Occurrences(body, name)) <= 1
  /\ \A p \in DOMAIN body :
       \/ body[p].type = "MustacheStatement"
       \/ /\ body[p].type = "BlockStatement"
          /\ FlatStatements(Inner(body[p]))
          /\ Cardinality(Occurrences(Inner(body[p]), name)) <= 1

\* C15: when a callback answers k >= 2 nodes for the node at index i of an
\* array, the array afterwards holds them in the order given at i..i+k-1,
\* between the siblings as they were: in the body of the template and in the
\* body of a block of the template alike.
C15_MultipleNodesAreSplicedInOrder ==
  [][(Traversed /\ Splices(nextPlugin(walk)))
       => LET rule == TheRule(nextPlugin(walk))
              body == walk.ast.body
              inside(statement) ==
                IF statement.type = "BlockStatement"
                THEN [statement EXCEPT !.program =
                        <<[@[1] EXCEPT !.body =
                             InsertedAt(@, Occurrences(@, rule.match), Named(rule.to))]>>]
                ELSE statement
          IN SimpleBody(body, rule.match)
               => walk'.ast.body
                    = InsertedAt([p \in DOMAIN body |-> inside(body[p])],
                                 Occurrences(body, rule.match), Named(rule.to))]_vars

\* {{x}}{{y}}{{z}} with y answered by [a, b] has become {{x}}{{a}}{{b}}{{z}}
C15_Witness ==
  /\ Len(walk.trees) >= 1
  /\ Splices(walk.plugins[1])
  /\ walk.source.body = <<Mustache("x"), Mustache("y"), Mustache("z")>>
  /\ walk.trees[1].body = <<Mustache("x"), Mustache("a"), Mustache("b"), Mustache("z")>>

\* the first statement of the template is an element whose first attribute
\* has a mustache of the name for its value
AttrValueIs(ast, name) ==
  /\ Len(ast.body) >= 1
  /\ ast.body[1].type = "ElementNode"
  /\ Len(ast.body[1].attributes) >= 1
  /\ ast.body[1].attributes[1].value = <<Mustache(name)>>

\* a turn of the loop of applyPlugins, however it ends
ApplyPluginStep ==
  /\ walk.phase = "plugins"
  /\ walk.next <= Len(walk.plugins)
  /\ walk' # walk

\* C16: null or [] answered for the node of a singular field (the value of
\* an attribute), by the enter or by the exit callback, raises the
\* cannot-remove-node error with the node, its parent and the key.
C16_RemovingSingularFieldRaises ==
  [][(ApplyPluginStep /\ Removes(nextPlugin(walk))
        /\ AttrValueIs(walk.ast, TheRule(nextPlugin(walk)).match))
       => /\ walk'.phase = "threw"
          /\ walk'.error =
               [message |-> "Cannot remove a node unless it is part of an array",
                node |-> Mustache(TheRule(nextPlugin(walk)).match),
                parent |-> walk.ast.body[1].attributes[1],
                key |-> "value"]]_vars

\* <x y={{z}} /> with z answered by null or [] on exit has raised
C16_Witness ==
  /\ walk.phase = "threw"
  /\ walk.error.message = "Cannot remove a node unless it is part of an array"
  /\ walk.error.key = "value"
  /\ Removes(walk.plugins[walk.next])
  /\ TheRule(walk.plugins[walk.next]).event = "exit"

OneNode(plugin) ==
  /\ Cardinality(plugin.rules) = 1
  /\ TheRule(plugin).kind \in {"node", "array"}
  /\ Len(TheRule(plugin).to) = 1

\* C17: two or more nodes answered for the node of a singular field raise
\* the cannot-replace-node error with the node, its parent and the key; one
\* node, bare or in an array of one, takes the place of the value and
\* nothing is raised.
C17_ReplacingSingularField ==
  [][(ApplyPluginStep /\ Cardinality(nextPlugin(walk).rules) = 1
        /\ AttrValueIs(walk.ast, TheRule(nextPlugin(walk)).match))
       => LET rule == TheRule(nextPlugin(walk))
              attr == walk.ast.body[1].attributes[1]
          IN /\ Splices(nextPlugin(walk))
                  => /\ walk'.phase = "threw"
                     /\ walk'.error =
                          [message |-> "Cannot replace a node with multiple nodes unless it is part of an array",
                           node |-> Mustache(rule.match),
                           parent |-> attr,
                           key |-> "value"]
             /\ OneNode(nextPlugin(walk))
                  => /\ walk'.phase = "plugins"
                     /\ walk'.error = NoError
                     /\ walk'.ast = [walk.ast EXCEPT
                          !.body[1].attributes[1].value = <<Mustache(rule.to[1])>>]]_vars

\* <x y={{z}} /> with z answered by two nodes has raised
C17_Witness ==
  /\ walk.phase = "threw"
  /\ walk.error.message
       = "Cannot replace a node with multiple nodes unless it is part of an array"
  /\ walk.error.node = Mustache("z")
  /\ Splices(walk.plugins[walk.next])

\* the enter callback of the plugin answered a replacement (or null) for
\* the node of call i of the log
ReplacedOnEnter(i) ==
  /\ walk.log[i].event = "enter"
  /\ walk.log[i].returned # "undefined"

\* C18: a node whose enter callback answered a replacement gets no exit
\* callback: after the enter call, the same plugin makes no exit call for a
\* node of that type and name (its callbacks answer by type and name, so
\* every such node is replaced on enter).
C18_NoExitForReplacedNode ==
  \A i, j \in DOMAIN walk.log :
    (ReplacedOnEnter(i) /\ walk.log[j].plugin = walk.log[i].plugin
       /\ walk.log[j].event = "exit")
      => ~(walk.log[j].type = walk.log[i].type /\ walk.log[j].name = walk.log[i].name)

\* a node was replaced on enter and its replacement got its exit callback
C18_Witness ==
  \E i, j \in DOMAIN walk.log :
    /\ i < j
    /\ ReplacedOnEnter(i)
    /\ walk.log[i].returned = "node"
    /\ walk.log[j].plugin = walk.log[i].plugin
    /\ walk.log[j].event = "exit"
    /\ walk.log[j].name = "a"

\* every statement of the array is a mustache
AllMustaches(array) ==
  \A p \in DOMAIN array : array[p].type = "MustacheStatement"

\* the names of the statements of an array
StatementNames(array) == [p \in DOMAIN array |-> array[p].name]

\* C19: the traversal continues into the node an enter callback answered.
\* With x answered by y and y answered by z on enter, every x, y and z of a
\* body of mustaches ends as z; with the block w answered by v and x
\* answered by a on enter, the x inside the program of the renamed block is
\* renamed too.
C19_TraversalContinuesIntoReplacement ==
  [][Traversed
       => LET body == walk.ast.body
              after == walk'.ast.body
          IN /\ (nextPlugin(walk).rules = Chain("enter") /\ AllMustaches(body))
                  => /\ AllMustaches(after)
                     /\ StatementNames(after)
                          = [p \in DOMAIN body |->
                               IF body[p].name \in {"x", "y"} THEN "z" ELSE body[p].name]
             /\ nextPlugin(walk).rules = Renaming("enter")
                  => \A p \in DOMAIN body :
                       (body[p].type = "BlockStatement" /\ body[p].name = "w"
                          /\ AllMustaches(Inner(body[p])))
                         => /\ p \in DOMAIN after
                            /\ after[p].type = "BlockStatement"
                            /\ after[p].name = "v"
                            /\ AllMustaches(Inner(after[p]))
                            /\ StatementNames(Inner(after[p]))
                                 = [q \in DOMAIN Inner(body[p]) |->
                                      IF Inner(body[p])[q].name = "x"
                                      THEN "a" ELSE Inner(body[p])[q].name]]_vars

\* {{x}}{{y}}{{z}} has become {{z}}{{z}}{{z}} under x -> y, y -> z on enter
C19_Witness ==
  /\ walk.phase = "plugins"
  /\ walk.next = 2
  /\ walk.plugins[1].rules = Chain("enter")
  /\ StatementNames(walk.source.body) = <<"x", "y", "z">>
  /\ AllMustaches(walk.ast.body)
  /\ StatementNames(walk.ast.body) = <<"z", "z", "z">>

\* the tree handed to the Walker is this one
Walking(ast) ==
  /\ walk.phase = "walked"
  /\ walk.returned = <<ast>>

\* C20: the Walker calls its callback for a node before the node's
\* children, and for the children in document order:
\* <div><li></li></div> gives Template, ElementNode, ElementNode;
\* {{#foo}}<li></li>{{/foo}} gives Template, BlockStatement, Block,
\* ElementNode; {{y}}{{#w}}{{x}}{{y}}{{z}}{{/w}} gives the mustache before
\* the block that follows it.
C20_WalkerIsPreOrder ==
  /\ walk.phase = "walked" => walk.walked[1] = "Template"
  /\ Walking(Template(<<Element("div", <<>>, <<Element("li", <<>>, <<>>)>>)>>))
       => walk.walked = <<"Template", "ElementNode", "ElementNode">>
  /\ Walking(Template(<<BlockStmt("foo", <<Element("li", <<>>, <<>>)>>)>>))
       => walk.walked = <<"Template", "BlockStatement", "Block", "ElementNode">>
  /\ Walking(Template(<<Mustache("y"),
                        BlockStmt("w", <<Mustache("x"), Mustache("y"), Mustache("z")>>)>>))
       => walk.walked = <<"Template", "MustacheStatement", "BlockStatement", "Block",
                          "MustacheStatement", "MustacheStatement", "MustacheStatement">>

\* the block of the second example has been walked
C20_Witness ==
  /\ Walking(Template(<<BlockStmt("foo", <<Element("li", <<>>, <<>>)>>)>>))
  /\ Len(walk.walked) = 4
  /\ walk.walked[3] = "Block"


\* ------------------------------------------------ siblings of a changed node
NodeNames == {"x", "y", "z", "w", "v", "a", "b", "foo", "li", "div"}

\* how many nodes of the type and name the tree under the node holds
RECURSIVE CountNamed(_, _, _)
RECURSIVE CountAmong(_, _, _)

CountAmong(nodes, type, name) ==
  IF Len(nodes) = 0 THEN 0
  ELSE CountNamed(nodes[1], type, name) + CountAmong(Tail(nodes), type, name)

CountNamed(node, type, name) ==
  (IF node.type = type /\ node.name = name THEN 1 ELSE 0)
    + CountAmong(node.attributes \o node.children \o node.body
                   \o node.value \o node.program, type, name)

\* how often the callback of the event was called for a node of the type and
\* name, after the first `from` entries of the log
Calls(log, from, event, type, name) ==
  Cardinality({i \in (from + 1)..Len(log) :
                 /\ log[i].event = event
                 /\ log[i].type = type
                 /\ log[i].name = name})

RangeOf(seq) == {seq[i] : i \in DOMAIN seq}

\* C36: when a traversal removes a node of an array or replaces it by
\* several nodes, every other node of the tree that has a handler, the
\* siblings of the changed node among them, is entered exactly once and
\* left exactly once: none is skipped and none is visited again.
C36_SiblingsAreVisitedExactlyOnce ==
  [][(Traversed /\ (Removes(nextPlugin(walk)) \/ Splices(nextPlugin(walk))))
       => LET plugin == nextPlugin(walk)
              r == TheRule(plugin)
          IN \A type \in plugin.types, name \in NodeNames \ RangeOf(r.to),
                event \in {"enter", "exit"} :
               (type # r.type \/ name # r.match)
                 => Calls(walk'.log, Len(walk.log), event, type, name)
                      = CountNamed(walk.ast, type, name)]_vars

\* the first plugin took away, or replaced by two nodes, the middle one of
\* three statements; the statement after it was entered once
C36_Witness ==
  /\ walk.next = 2
  /\ Len(walk.trees) = 1
  /\ Removes(walk.plugins[1]) \/ Splices(walk.plugins[1])
  /\ Len(walk.source.body) = 3
  /\ FlatStatements(walk.source.body)
  /\ Occurrences(walk.source.body, TheRule(walk.plugins[1]).match) = {2}
  /\ Calls(walk.log, 0, "enter", "MustacheStatement", walk.source.body[3].name) = 1
  /\ Calls(walk.log, 0, "exit", "MustacheStatement", walk.source.body[1].name) = 1

\* ------------------------------------------- positions in a SourceTemplate
MaxSourceLen == 3    \* characters of the template's source
MaxLine == 3         \* lines a caller's SourcePosition names
MaxColumn == 3       \* columns a caller's SourcePosition names

\* the characters of the sources: a letter and the line feed
Chars == {"a", "\n"}

RECURSIVE SourcesOfLen(_)
SourcesOfLen(n) ==
  IF n = 0 THEN {<<>>}
  ELSE {Append(src, c) : src \in SourcesOfLen(n - 1), c \in Chars}

Sources == UNION {SourcesOfLen(n) : n \in 0..MaxSourceLen}

\* null where a number is expected (offsets are never negative)
NoOffset == -1

\* null where a SourcePosition is expected
NoPosition == [line |-> 0, column |-> 0]

Position(line, column) == [line |-> line, column |-> column]

UNKNOWN_POSITION == Position(1, 0)

\* String.prototype.indexOf(ch, from), offsets counted from 0
indexOf(source, ch, from) ==
  LET hits == {i \in from..(Len(source) - 1) : source[i + 1] = ch}
  IN IF hits = {} THEN -1 ELSE CHOOSE i \in hits : \A h \in hits : i <= h

\* SourceTemplate.check
check(source, offset) == offset >= 0 /\ offset <= Len(source)

RECURSIVE hbsPosFor_loop(_, _, _, _)
hbsPosFor_loop(source, offset, seenLines, seenChars) ==
  LET nextLine == indexOf(source, "\n", seenChars)
  IN IF offset <= nextLine \/ nextLine = -1
     THEN Position(seenLines + 1, offset - seenChars)
     ELSE hbsPosFor_loop(source, offset, seenLines + 1, nextLine + 1)

\* the line of the position is one too many
hbsPosFor_lineOff(source, offset) ==
  IF offset > Len(source) THEN NoPosition
  ELSE LET pos == hbsPosFor_loop(source, offset, 0, 0)
       IN Position(pos.line + 1, pos.column)

\* SourceTemplate.hbsPosFor
hbsPosFor(source, offset) ==
  IF offset > Len(source) THEN NoPosition
  ELSE hbsPosFor_loop(source, offset, 0, 0)

\* what a conversion hands back: a number, or the assertion it failed
Returned(value) == [raised |-> FALSE, value |-> value]
AssertionFailed == [raised |-> TRUE, value |-> NoOffset]

RECURSIVE charPosFor_loop(_, _, _, _, _)
charPosFor_loop(source, position, DEBUG, seenLines, seenChars) ==
  IF seenChars >= Len(source) THEN Returned(Len(source))
  ELSE LET found == indexOf(source, "\n", seenChars)
           nextLine == IF found = -1 THEN Len(source) ELSE found
       IN IF seenLines = position.line - 1
          THEN IF seenChars + position.column > nextLine
               THEN Returned(nextLine)
               ELSE LET roundTrip == hbsPosFor(source, seenChars + position.column)
                    IN IF DEBUG /\ roundTrip # position
                       THEN AssertionFailed
                       ELSE Returned(seenChars + position.column)
          ELSE IF nextLine = -1 THEN Returned(0)
          ELSE charPosFor_loop(source, position, DEBUG, seenLines + 1, nextLine + 1)

\* SourceTemplate.charPosFor
charPosFor(source, position, DEBUG) ==
  charPosFor_loop(source, position, DEBUG, 0, 0)

\* the three kinds of data behind a SourceOffset
OffsetPosition(offset, pos) == [kind |-> "offset", offset |-> offset, pos |-> pos]
BrokenPosition(pos) == [kind |-> "broken", offset |-> NoOffset, pos |-> pos]
AstPosition(pos) == [kind |-> "ast", offset |-> NoOffset, pos |-> pos]

\* what AstPosition.#compute leaves in its cache, or the assertion of the
\* OffsetPosition constructor
Computed(data) == [raised |-> FALSE, data |-> data]
ComputeFailed == [raised |-> TRUE, data |-> BrokenPosition(NoPosition)]

\* AstPosition.#compute
compute(source, pos, DEBUG) ==
  LET char == charPosFor(source, pos, DEBUG)
  IN IF char.raised THEN ComputeFailed
     ELSE IF char.value = NoOffset THEN Computed(BrokenPosition(pos))
     ELSE IF ~check(source, char.value + 0) THEN ComputeFailed
     ELSE Computed(OffsetPosition(char.value + 0, NoPosition))

\* the positions a caller hands to SourceTemplate.offsetFor
Positions == {Position(line, column) : line \in 1..MaxLine, column \in 0..MaxColumn}

\* OffsetPosition.toAST of an offset of the template
ToAST ==
  /\ located.phase = "template"
  /\ \E offset \in 0..Len(located.source) :
       located' = [phase |-> "position", source |-> located.source,
                   DEBUG |-> located.DEBUG, offset |-> offset,
                   pos |-> hbsPosFor(located.source, offset)]

\* SourceTemplate.offsetFor(line, column) of a caller
OffsetFor ==
  /\ located.phase = "template"
  /\ \E pos \in Positions :
       located' = [phase |-> "position", source |-> located.source,
                   DEBUG |-> located.DEBUG, offset |-> NoOffset, pos |-> pos]

\* the offset getter of the AstPosition made from the position
Convert ==
  /\ located.phase = "position"
  /\ located' = [phase |-> "converted", source |-> located.source,
                 DEBUG |-> located.DEBUG, offset |-> located.offset,
                 pos |-> located.pos,
                 computed |-> compute(located.source, located.pos, located.DEBUG)]

\* the parse and the plugins are not running
Idle ==
  /\ pipeline = "classic"
  /\ entry = "preprocess"
  /\ options = "{}"
  /\ tokenizerState = "beforeData"
  /\ parser = InitParser(pipeline)
  /\ frames = <<>>
  /\ outcome = "accepted"
  /\ thrown = NoRaise
  /\ template = [hasErrors |-> FALSE, errors |-> <<>>]
  /\ drawn = [attributes |-> 0, mustaches |-> 0, endTags |-> 0]
  /\ walk = NoWalk

UNCHANGED_idle ==
  UNCHANGED <<pipeline, entry, options, tokenizerState, parser, frames,
              outcome, thrown, template, drawn, walk>>

SourceInit ==
  /\ Idle
  /\ startTag = NoStartTag
  /\ scanned = NoLocals
  /\ constructing = NotConstructing
  /\ fired = NoCallback
  /\ \E source \in Sources, DEBUG \in BOOLEAN :
       located = [phase |-> "template", source |-> source, DEBUG |-> DEBUG]

\* ------------------------------------------------------------ spans
\* SourceOffset.offset
offset(source, DEBUG, data) ==
  IF data.kind = "ast" THEN compute(source, data.pos, DEBUG).data.offset
  ELSE data.offset

\* the offset getter of the data raises
offsetRaises(source, DEBUG, data) ==
  data.kind = "ast" /\ compute(source, data.pos, DEBUG).raised

\* SourceOffset.toAST
toAST(source, data) ==
  IF data.kind = "offset" THEN hbsPosFor(source, data.offset) ELSE data.pos

\* an offset that was never made: the assertion of the OffsetPosition
\* constructor, or of existing() in OffsetPosition.toAST, failed
RaisedPosition == [kind |-> "raised", offset |-> NoOffset, pos |-> NoPosition]

\* new OffsetPosition(template, offset)
NewOffsetPosition(source, to) ==
  IF check(source, to) THEN OffsetPosition(to, NoPosition) ELSE RaisedPosition

\* SourceOffset.broken(template, data.toAST())
broken(source, data) ==
  IF toAST(source, data) = NoPosition THEN RaisedPosition
  ELSE BrokenPosition(toAST(source, data))

\* the moved offset made without a look at the bounds of the template
move_unchecked(source, DEBUG, data, by) ==
  IF by = 0 THEN data
  ELSE LET from == offset(source, DEBUG, data)
       IN IF from = NoOffset THEN broken(source, data)
          ELSE NewOffsetPosition(source, from + by)

\* SourceOffset.move
move(source, DEBUG, data, by) ==
  IF by = 0 THEN data
  ELSE LET from == offset(source, DEBUG, data)
       IN IF from = NoOffset THEN broken(source, data)
          ELSE IF check(source, from + by)
               THEN NewOffsetPosition(source, from + by)
               ELSE broken(source, data)

\* SourceSpan.from
ConcreteSpan(start, end) ==
  [type |-> "concrete", start |-> start, end |-> end, chars |-> <<>>]

\* SourceSpan.synthetic
SyntheticSpan(chars) ==
  [type |-> "synthetic", start |-> BrokenPosition(UNKNOWN_POSITION),
   end |-> BrokenPosition(UNKNOWN_POSITION), chars |-> chars]

\* SourceSpan.offsets(template, start, end)
SourceSpan_offsets(source, start, end) ==
  ConcreteSpan(NewOffsetPosition(source, start), NewOffsetPosition(source, end))

\* null where the offsets of a span are expected
NoOffsets == [start |-> NoOffset, end |-> NoOffset]

\* the offsets of the two ends, whatever their order
offsets_unordered(source, DEBUG, span) ==
  LET start == offset(source, DEBUG, span.start)
      end == offset(source, DEBUG, span.end)
  IN IF start # NoOffset /\ end # NoOffset
     THEN [start |-> start, end |-> end]
     ELSE NoOffsets

\* the offsets getter of a span
offsets(source, DEBUG, span) ==
  LET start == offset(source, DEBUG, span.start)
      end == offset(source, DEBUG, span.end)
  IN IF start # NoOffset /\ end # NoOffset /\ end >= start
     THEN [start |-> start, end |-> end]
     ELSE NoOffsets

\* SourceOffset.until
until(start, other) == ConcreteSpan(start, other)

withStart(span, start) ==
  IF span.type = "synthetic" THEN span ELSE ConcreteSpan(start, span.end)

withEnd(span, end) ==
  IF span.type = "synthetic" THEN span ELSE ConcreteSpan(span.start, end)

collapse(span, where) ==
  IF where = "start" THEN withEnd(span, span.start) ELSE withStart(span, span.end)

slice(source, DEBUG, span, skipStart, skipEnd) ==
  ConcreteSpan(move(source, DEBUG, span.start, skipStart),
               move(source, DEBUG, span.end, -skipEnd))

sliceStartChars(source, DEBUG, span, skipStart, chars) ==
  ConcreteSpan(move(source, DEBUG, span.start, skipStart),
               move(source, DEBUG, span.start, skipStart + chars))

sliceEndChars(source, DEBUG, span, skipEnd, chars) ==
  ConcreteSpan(move(source, DEBUG, span.end, skipEnd - chars),
               move(source, DEBUG, span.end, -skipEnd))

splitAt(source, DEBUG, span, side, chars) ==
  IF side = "fromStart"
  THEN <<sliceStartChars(source, DEBUG, span, 0, chars),
         slice(source, DEBUG, span, chars, 0)>>
  ELSE <<slice(source, DEBUG, span, 0, chars),
         sliceEndChars(source, DEBUG, span, 0, chars)>>

\* the span that ends where the other starts
extend_toStartOfOther(span, other) ==
  IF span.type = "synthetic" THEN other ELSE ConcreteSpan(span.start, other.start)

\* ConcreteSpan.extend, SyntheticSpan.extend
extend(span, other) ==
  IF span.type = "synthetic" THEN other ELSE ConcreteSpan(span.start, other.end)

\* ConcreteSpan.asString, SyntheticSpan.asString
asString(source, DEBUG, span) ==
  IF span.type = "synthetic" THEN span.chars
  ELSE LET range == offsets(source, DEBUG, span)
       IN IF range = NoOffsets THEN <<>>
          ELSE SubSeq(source, range.start + 1, range.end)

\* the forms of a SerializedSourceSpan; the text line:column-line:column of
\* a broken one is kept as its four numbers
serializeBroken(start, end) ==
  [form |-> "broken", numbers |-> <<start.line, start.column, end.line, end.column>>,
   chars |-> <<>>]

serializeOffsets(range) ==
  IF range.start = range.end
  THEN [form |-> "number", numbers |-> <<range.start>>, chars |-> <<>>]
  ELSE [form |-> "pair", numbers |-> <<range.start, range.end>>, chars |-> <<>>]

\* ConcreteSpan.serialize, SyntheticSpan.serialize
serialize(source, DEBUG, span) ==
  IF span.type = "synthetic"
  THEN [form |-> "string", numbers |-> <<>>, chars |-> span.chars]
  ELSE LET range == offsets(source, DEBUG, span)
       IN IF range = NoOffsets
          THEN serializeBroken(toAST(source, span.start), toAST(source, span.end))
          ELSE serializeOffsets(range)

\* parse of the serialized form, before SourceSpan.load makes the span
parse(serialized) ==
  CASE serialized.form = "number" ->
         [type |-> "valid", start |-> serialized.numbers[1], end |-> serialized.numbers[1]]
    [] serialized.form = "string" -> [type |-> "synthetic", chars |-> serialized.chars]
    [] serialized.form = "broken" ->
         [type |-> "broken",
          start |-> Position(serialized.numbers[1], serialized.numbers[2]),
          end |-> Position(serialized.numbers[3], serialized.numbers[4])]
    [] OTHER ->
         [type |-> "valid", start |-> serialized.numbers[1],
          end |-> serialized.numbers[1] + serialized.numbers[2]]

\* what an operation of a span hands back: spans and text, or nothing when
\* an offset of its spans could not be made
Failed == [raised |-> TRUE, spans |-> <<>>, text |-> <<>>]

Done(spans, text) ==
  IF \E i \in DOMAIN spans : "raised" \in {spans[i].start.kind, spans[i].end.kind}
  THEN Failed
  ELSE [raised |-> FALSE, spans |-> spans, text |-> text]

\* SourceSpan.load
load(source, serialized) ==
  LET parsed == parse(serialized)
  IN CASE parsed.type = "valid" ->
            Done(<<SourceSpan_offsets(source, parsed.start, parsed.end)>>, <<>>)
       [] parsed.type = "broken" ->
            Done(<<ConcreteSpan(AstPosition(parsed.start), AstPosition(parsed.end))>>, <<>>)
       [] OTHER -> Done(<<SyntheticSpan(parsed.chars)>>, <<>>)

\* the offsets spans are made of: character offsets of the source, a
\* broken one, and line/column positions not resolved yet
Offsets(source) ==
  {OffsetPosition(n, NoPosition) : n \in 0..Len(source)}
    \cup {BrokenPosition(UNKNOWN_POSITION)}
    \cup {AstPosition(Position(1, 1)), AstPosition(Position(2, 0))}

Spans(source) ==
  {ConcreteSpan(start, end) : start, end \in Offsets(source)}
    \cup {SyntheticSpan(<<"a">>)}

\* both ends are character offsets, in order
IsConcrete(span) ==
  /\ span.type = "concrete"
  /\ span.start.kind = "offset"
  /\ span.end.kind = "offset"
  /\ span.start.offset <= span.end.offset

\* an end of the span is broken, or the span is synthetic
HasBrokenOffset(span) ==
  \/ span.type = "synthetic"
  \/ span.start.kind = "broken"
  \/ span.end.kind = "broken"

Operations ==
  {"extend", "collapse", "slice", "sliceStartChars", "sliceEndChars", "splitAt",
   "withStart", "withEnd", "until", "asString", "serialize"}

\* the operation on the span, with the other span and the numbers it takes
operate(source, DEBUG, op, span, other, where, n, m) ==
  IF \E data \in {span.start, span.end, other.start, other.end} :
       offsetRaises(source, DEBUG, data)
  THEN Failed
  ELSE CASE op = "extend" -> Done(<<extend(span, other)>>, <<>>)
         [] op = "collapse" -> Done(<<collapse(span, where)>>, <<>>)
         [] op = "slice" -> Done(<<slice(source, DEBUG, span, n, m)>>, <<>>)
         [] op = "sliceStartChars" ->
              Done(<<sliceStartChars(source, DEBUG, span, n, m)>>, <<>>)
         [] op = "sliceEndChars" ->
              Done(<<sliceEndChars(source, DEBUG, span, n, m)>>, <<>>)
         [] op = "splitAt" ->
              Done(splitAt(source, DEBUG, span,
                           IF where = "start" THEN "fromStart" ELSE "fromEnd", n), <<>>)
         [] op = "withStart" -> Done(<<withStart(span, other.start)>>, <<>>)
         [] op = "withEnd" -> Done(<<withEnd(span, other.end)>>, <<>>)
         [] op = "until" -> Done(<<until(span.start, other.end)>>, <<>>)
         [] op = "asString" -> Done(<<>>, asString(source, DEBUG, span))
         [] OTHER -> Done(<<>>, <<>>)

\* span.serialize() of a span of the template
Serialize ==
  /\ located.phase = "template"
  /\ \E span \in Spans(located.source) :
       /\ ~offsetRaises(located.source, located.DEBUG, span.start)
       /\ ~offsetRaises(located.source, located.DEBUG, span.end)
       /\ located' = [phase |-> "serialized", source |-> located.source,
                      DEBUG |-> located.DEBUG, span |-> span,
                      serialized |-> serialize(located.source, located.DEBUG, span)]

\* SourceSpan.load(template, serialized)
Load ==
  /\ located.phase = "serialized"
  /\ located' = [phase |-> "loaded", source |-> located.source,
                 DEBUG |-> located.DEBUG, span |-> located.span,
                 serialized |-> located.serialized,
                 loaded |-> load(located.source, located.serialized)]

\* one operation of the span algebra on a span of the template
Operate ==
  /\ located.phase = "template"
  /\ \E op \in Operations \ {"serialize"}, span \in Spans(located.source),
        at \in Offsets(located.source), where \in {"start", "end"}, n, m \in 0..1 :
       LET other == ConcreteSpan(at, at) IN
       located' = [phase |-> "operated", source |-> located.source,
                   DEBUG |-> located.DEBUG, op |-> op, span |-> span,
                   result |-> operate(located.source, located.DEBUG, op, span,
                                      other, where, n, m)]

\* a.extend(b).extend(c) and a.extend(b.extend(c))
ExtendThree ==
  /\ located.phase = "template"
  /\ \E a, b, c \in {span \in Spans(located.source) : IsConcrete(span)} :
       located' = [phase |-> "extended", source |-> located.source,
                   DEBUG |-> located.DEBUG, a |-> a, b |-> b, c |-> c,
                   left |-> extend(extend(a, b), c),
                   right |-> extend(a, extend(b, c))]

SourceNext ==
  \/ ToAST /\ UNCHANGED_idle /\ UNCHANGED <<startTag, scanned, constructing, fired>>
  \/ OffsetFor /\ UNCHANGED_idle /\ UNCHANGED <<startTag, scanned, constructing, fired>>
  \/ Convert /\ UNCHANGED_idle /\ UNCHANGED <<startTag, scanned, constructing, fired>>
  \/ Serialize /\ UNCHANGED_idle /\ UNCHANGED <<startTag, scanned, constructing, fired>>
  \/ Load /\ UNCHANGED_idle /\ UNCHANGED <<startTag, scanned, constructing, fired>>
  \/ Operate /\ UNCHANGED_idle /\ UNCHANGED <<startTag, scanned, constructing, fired>>
  \/ ExtendThree /\ UNCHANGED_idle /\ UNCHANGED <<startTag, scanned, constructing, fired>>

SourceSpec == SourceInit /\ [][SourceNext]_vars

\* C21: an offset of the source converted to line and column and back is
\* the same offset, and the conversion raises nothing.
C21_OffsetRoundTrips ==
  (located.phase = "converted" /\ located.offset # NoOffset)
    => /\ ~located.computed.raised
       /\ located.computed.data.kind = "offset"
       /\ located.computed.data.offset = located.offset

\* an offset of a\na that is on the line feed, at the start of the second
\* line or at the end of the source has made the round trip
C21_Witness ==
  /\ located.phase = "converted"
  /\ located.source = <<"a", "\n", "a">>
  /\ located.offset \in {1, 2, 3}
  /\ located.computed.data.offset = located.offset

\* the lines of the source, as SourceTemplate.lines splits them
RECURSIVE lines(_)
lines(source) ==
  LET nextLine == indexOf(source, "\n", 0)
  IN IF nextLine = -1 THEN <<source>>
     ELSE <<SubSeq(source, 1, nextLine)>>
            \o lines(SubSeq(source, nextLine + 2, Len(source)))

\* the position names no character of the source and no end of a line
OutsideSource(source, pos) ==
  \/ pos.line > Len(lines(source))
  \/ /\ pos.line <= Len(lines(source))
     /\ pos.column > Len(lines(source)[pos.line])

\* C23: a line/column position outside the source resolves to a broken
\* offset, one without a character offset, and raises nothing.
C23_OutsidePositionIsBroken ==
  (located.phase = "converted" /\ OutsideSource(located.source, located.pos))
    => /\ ~located.computed.raised
       /\ located.computed.data.kind = "broken"
       /\ located.computed.data.offset = NoOffset

\* C22: a concrete span serialized and loaded against its template covers
\* the same character range.
C22_SerializedSpanRoundTrips ==
  (located.phase = "loaded" /\ IsConcrete(located.span))
    => /\ ~located.loaded.raised
       /\ offsets(located.source, located.DEBUG, located.loaded.spans[1])
            = [start |-> located.span.start.offset, end |-> located.span.end.offset]

\* C24: on a span with a broken offset no operation of the span algebra
\* raises, serialize included, and a concrete span made of two broken
\* offsets reads as the empty text.
C24_BrokenSpansNeverRaise ==
  /\ (located.phase = "operated" /\ HasBrokenOffset(located.span))
       => /\ ~located.result.raised
          /\ (located.op = "asString" /\ located.span.type = "concrete")
               => located.result.text = <<>>
  /\ (located.phase \in {"serialized", "loaded"} /\ HasBrokenOffset(located.span))
       => located.serialized.form \in {"broken", "string"}

\* a span of two broken offsets has been sliced into a span of broken
\* offsets
C24_Witness ==
  /\ located.phase = "operated"
  /\ located.op = "slice"
  /\ located.span = ConcreteSpan(BrokenPosition(UNKNOWN_POSITION),
                                 BrokenPosition(UNKNOWN_POSITION))
  /\ ~located.result.raised
  /\ located.result.spans[1].start.kind = "broken"
  /\ located.result.spans[1].end.kind = "broken"

\* C25: for concrete spans a, b and c of one template, a.extend(b).extend(c)
\* and a.extend(b.extend(c)) cover the same character range.
C25_ExtendIsAssociative ==
  located.phase = "extended"
    => offsets(located.source, located.DEBUG, located.left)
         = offsets(located.source, located.DEBUG, located.right)

\* three different spans have been extended, to a range that is not empty
C25_Witness ==
  /\ located.phase = "extended"
  /\ located.a # located.b
  /\ located.b # located.c
  /\ located.b.start # located.c.start
  /\ offsets(located.source, located.DEBUG, located.left)
       = [start |-> located.a.start.offset, end |-> located.c.end.offset]
  /\ located.a.start.offset < located.c.end.offset

\* both ends of the span resolve to character offsets
BothResolve(source, DEBUG, span) ==
  /\ offset(source, DEBUG, span.start) # NoOffset
  /\ offset(source, DEBUG, span.end) # NoOffset

\* the end of the span is not before its start
Ordered(source, DEBUG, span) ==
  offset(source, DEBUG, span.end) >= offset(source, DEBUG, span.start)

\* an operation of the span algebra has made spans of a span that is in order
OperatedInOrder ==
  /\ located.phase = "operated"
  /\ ~located.result.raised
  /\ BothResolve(located.source, located.DEBUG, located.span)
       => Ordered(located.source, located.DEBUG, located.span)

MaxTagAttributes == 4    \* attributes of the start tag

\* the attributes of the start tags: bare ones, with and without pipes, and
\* one with a value
TagAttributes ==
  {bareAttr(name) : name \in {"as", "|", "|a", "b|", "|a|", "a"}}
    \cup {[name |-> "x", value |-> TextNode("v")]}

RECURSIVE AttributesOfLen(_)
AttributesOfLen(n) ==
  IF n = 0 THEN {<<>>}
  ELSE {Append(attributes, attr) :
          attributes \in AttributesOfLen(n - 1), attr \in TagAttributes}

\* getBlockParams(attributes) of a start tag
GetBlockParams ==
  /\ startTag.phase = "attributes"
  /\ startTag' = [phase |-> "parsed", attributes |-> startTag.attributes,
                  result |-> getBlockParams(startTag.attributes)]

BlockParamsInit ==
  /\ Idle
  /\ located = NoSource
  /\ scanned = NoLocals
  /\ constructing = NotConstructing
  /\ fired = NoCallback
  /\ \E n \in 0..MaxTagAttributes :
       \E attributes \in AttributesOfLen(n) :
         startTag = [phase |-> "attributes", attributes |-> attributes]

BlockParamsNext == GetBlockParams /\ UNCHANGED_idle /\ UNCHANGED <<located, scanned, constructing, fired>>

BlockParamsSpec == BlockParamsInit /\ [][BlockParamsNext]_vars

\* the bare tokens of the start tag, pipes split off, among its attributes
Tokens == preparseAttrs(startTag.attributes)

\* where the tokens named so are
TokensAt(name) == {i \in DOMAIN Tokens : isBareAttrNamed(Tokens[i], name)}

Least(indices) == CHOOSE i \in indices : \A k \in indices : i <= k

\* the tag has been given to getBlockParams
Parsed == startTag.phase = "parsed"

\* there is an `as` token and no pipe after the first one
AsWithoutPipe ==
  /\ TokensAt("as") # {}
  /\ \A i \in TokensAt("|") : i < Least(TokensAt("as"))

\* C26 as stated: `as` with no pipe after it gives one diagnostic, which is
\* block-params.missing-as-before-unclosed-pipe or block-params.missing-as.
C26_AsWithoutPipeIsMissingAs ==
  (Parsed /\ AsWithoutPipe)
    => /\ startTag.result.type = "err"
       /\ startTag.result.error \in {"block-params.missing-as-before-unclosed-pipe",
                                     "block-params.missing-as"}

\* C26 amended: `as` with no pipe after it gives one diagnostic, which is
\* block-params.missing-pipe, and neither params nor attributes.
C26_AsWithoutPipeIsMissingPipe ==
  (Parsed /\ AsWithoutPipe)
    => /\ startTag.result.type = "err"
       /\ startTag.result.error = "block-params.missing-pipe"
       /\ startTag.result.names = <<>>
       /\ startTag.result.attrs = <<>>

\* a pipe, then `as` with nothing but an attribute after it
C26_Witness ==
  /\ Parsed
  /\ AsWithoutPipe
  /\ TokensAt("|") # {}
  /\ Len(Tokens) > Least(TokensAt("as"))
  /\ startTag.result.error = "block-params.missing-pipe"

\* there are pipes and no `as` token
PipesWithoutAs ==
  /\ TokensAt("|") # {}
  /\ TokensAt("as") = {}

\* the pipes are two and the second is the last attribute of the tag
ClosedAtTheEnd ==
  /\ Cardinality(TokensAt("|")) = 2
  /\ Len(Tokens) \in TokensAt("|")

\* C27 as stated: pipes with no `as` give block-params.missing-pipe.
C27_PipesWithoutAsIsMissingPipe ==
  (Parsed /\ PipesWithoutAs)
    => /\ startTag.result.type = "err"
       /\ startTag.result.error = "block-params.missing-pipe"

\* C27 amended: pipes with no `as` give block-params.missing-as when the
\* pipes are two and the second is the last attribute of the tag, as in
\* |a|, and block-params.missing-as-before-unclosed-pipe otherwise.
C27_PipesWithoutAsIsMissingAs ==
  (Parsed /\ PipesWithoutAs)
    => /\ startTag.result.type = "err"
       /\ startTag.result.error
            = IF ClosedAtTheEnd THEN "block-params.missing-as"
              ELSE "block-params.missing-as-before-unclosed-pipe"

\* |a| alone has been given block-params.missing-as
C27_Witness ==
  /\ Parsed
  /\ startTag.attributes = <<bareAttr("|a|")>>
  /\ startTag.result.error = "block-params.missing-as"

\* `as`, a pipe after it and a second pipe after that one
ClosedPipesAfterAs ==
  /\ TokensAt("as") # {}
  /\ Cardinality({i \in TokensAt("|") : i > Least(TokensAt("as"))}) >= 2

SecondPipe ==
  LET after == {i \in TokensAt("|") : i > Least(TokensAt("as"))}
  IN Least(after \ {Least(after)})

\* what trails the closing pipe
Trailing == SubSeq(Tokens, SecondPipe + 1, Len(Tokens))

TrailingPipes == {i \in DOMAIN Trailing : isBareAttrNamed(Trailing[i], "|")}

\* C28: bare tokens after the closing pipe of an `as |...|` group give one
\* diagnostic: block-params.extra-attrs when no pipe trails,
\* block-params.extra-pipes when only pipes trail and
\* block-params.extra-pipes-and-attrs when pipes and other tokens trail.
C28_TrailingTokensChooseTheDiagnostic ==
  (Parsed /\ ClosedPipesAfterAs /\ Len(Trailing) > 0
     /\ \A i \in DOMAIN Trailing : isBareAttr(Trailing[i]))
    => /\ startTag.result.type = "err"
       /\ startTag.result.error
            = IF TrailingPipes = {} THEN "block-params.extra-attrs"
              ELSE IF TrailingPipes = DOMAIN Trailing THEN "block-params.extra-pipes"
              ELSE "block-params.extra-pipes-and-attrs"

\* the first `as` attribute of the tag
AsAttribute ==
  Least({i \in DOMAIN startTag.attributes :
           isBareAttrNamed(startTag.attributes[i], "as")})

\* the first attribute after `as` that has a pipe in its name
PipeAttribute ==
  Least({i \in DOMAIN startTag.attributes :
           /\ i > AsAttribute
           /\ isBareAttr(startTag.attributes[i])
           /\ startTag.attributes[i].name \in {"|", "|a", "b|", "|a|"}})

FirstPipe == Least({i \in TokensAt("|") : i > Least(TokensAt("as"))})

\* `as`, then a pair of pipes around one or more identifiers, then nothing
Success ==
  /\ ClosedPipesAfterAs
  /\ Len(Trailing) = 0
  /\ FirstPipe + 1 < SecondPipe
  /\ \A i \in (FirstPipe + 1)..(SecondPipe - 1) :
       isBareAttr(Tokens[i]) /\ Tokens[i].name \in {"a", "b", "as"}

\* C29: on success the params are the identifiers between the pipes in
\* source order and the remaining attributes are the attributes of the tag
\* outside the `as |...|` group, in their order.
C29_SuccessGivesParamsAndRemainingAttributes ==
  (Parsed /\ Success)
    => /\ startTag.result.type = "ok"
       /\ startTag.result.names
            = [i \in 1..(SecondPipe - FirstPipe - 1) |-> Tokens[FirstPipe + i].name]
       /\ startTag.result.attrs
            = SubSeq(startTag.attributes, 1, AsAttribute - 1)
                \o SubSeq(startTag.attributes, AsAttribute + 1, PipeAttribute - 1)

\* ------------------------------------------------------- template locals
\* get-template-locals.ts: the names a template takes from the scope around it

\* the nodes getTemplateLocals looks at; a tag is the sequence of the
\* segments between its dots, so that <button.Foo> is <<"button", "Foo">>
LocalsNode(type, tag, head, name, blockParams, children) ==
  [type |-> type, tag |-> tag, head |-> head, name |-> name,
   blockParams |-> blockParams, children |-> children]

PathExpression(head, name) == LocalsNode("PathExpression", <<>>, head, name, <<>>, <<>>)
MustacheOf(path) == LocalsNode("MustacheStatement", <<>>, "", "", <<>>, <<path>>)
ElementNode(tag, blockParams, children) ==
  LocalsNode("ElementNode", tag, "", "", blockParams, children)
ProgramBlock(blockParams, body) == LocalsNode("Block", <<>>, "", "", blockParams, body)
BlockOf(path, program) ==
  LocalsNode("BlockStatement", <<>>, "", "", <<>>, <<path, program>>)
TemplateNode(body) == LocalsNode("Template", <<>>, "", "", <<>>, body)

\* String.prototype.charAt(0) on the names the templates are written with
charAt0(name) ==
  CASE name = ":main" -> ":"
    [] name = "@arg" -> "@"
    [] name = "this" -> "t"
    [] name = "button" -> "b"
    [] name = "if" -> "i"
    [] name = "Foo" -> "F"
    [] name = "SomeComponent" -> "S"

\* String.prototype.toLowerCase
toLowerCase(name) ==
  CASE name = "Foo" -> "foo"
    [] name = "SomeComponent" -> "somecomponent"
    [] OTHER -> name

\* the keywords of the template language
KEYWORDS_TYPES == {"if"}

isKeyword(word) == word \in KEYWORDS_TYPES

\* Array.prototype.indexOf(tag) !== -1 on an array of names: a tag with a
\* dot in it is no element of the array
indexOfTag(scopedTokens, tag) ==
  \E i \in DOMAIN scopedTokens : <<scopedTokens[i]>> = tag

NoToken == <<>>

\* the token of a node: the head of a path, the tag of an element
tokensFromType(node, scopedTokens, opts) ==
  IF node.type = "PathExpression"
    THEN IF node.head \in {"AtHead", "ThisHead"}
           THEN NoToken
           ELSE IF \A i \in DOMAIN scopedTokens : scopedTokens[i] # node.name
                  THEN <<node.name>>
                  ELSE NoToken
    ELSE IF node.type = "ElementNode"
      THEN IF charAt0(node.tag[1]) \in {":", "@"}
             THEN NoToken
             ELSE IF /\ ~opts.includeHtmlElements
                     /\ Len(node.tag) = 1
                     /\ \A i \in DOMAIN node.tag : toLowerCase(node.tag[i]) = node.tag[i]
                    THEN NoToken
                    ELSE IF Len(node.tag) > 1 /\ node.tag[1] = "this"
                           THEN NoToken
                           ELSE IF indexOfTag(scopedTokens, node.tag)
                                  THEN NoToken
                                  ELSE node.tag
      ELSE NoToken

\* adds the first segment of the token of the node to the set
addTokens(tokensSet, node, scopedTokens, opts) ==
  LET maybeToken == tokensFromType(node, scopedTokens, opts)
  IN  IF maybeToken # NoToken /\ charAt0(maybeToken[1]) # "@"
        THEN tokensSet \cup {maybeToken[1]}
        ELSE tokensSet

\* scopedTokens.push(param) for each param
pushAll(scopedTokens, blockParams) == scopedTokens \o blockParams

\* scopedTokens.pop() for each param
popAll(scopedTokens, blockParams) ==
  SubSeq(scopedTokens, 1, Len(scopedTokens) - Len(blockParams))

\* the enter callbacks of the visitor
locals_enter(node, st, opts) ==
  CASE node.type = "Block" ->
         [st EXCEPT !.scopedTokens = pushAll(@, node.blockParams)]
    [] node.type = "ElementNode" ->
         LET pushed == pushAll(st.scopedTokens, node.blockParams)
         IN  [scopedTokens |-> pushed,
              tokensSet |-> addTokens(st.tokensSet, node, pushed, opts)]
    [] node.type = "PathExpression" ->
         [st EXCEPT !.tokensSet = addTokens(@, node, st.scopedTokens, opts)]
    [] OTHER -> st

\* the exit callbacks of the visitor
locals_exit(node, st) ==
  IF node.type \in {"Block", "ElementNode"}
    THEN [st EXCEPT !.scopedTokens = popAll(@, node.blockParams)]
    ELSE st

RECURSIVE locals_visit(_, _, _)
RECURSIVE locals_visitAll(_, _, _, _)

\* traverse: enter the node, visit its children in order, exit the node
locals_visit(node, st, opts) ==
  locals_exit(node, locals_visitAll(node.children, 1, locals_enter(node, st, opts), opts))

locals_visitAll(nodes, i, st, opts) ==
  IF i > Len(nodes)
    THEN st
    ELSE locals_visitAll(nodes, i + 1, locals_visit(nodes[i], st, opts), opts)

\* the names the template takes from outside, keywords left out unless asked
getTemplateLocals(ast, opts) ==
  LET tokens == locals_visit(ast, [scopedTokens |-> <<>>, tokensSet |-> {}], opts).tokensSet
  IN  IF ~opts.includeKeywords
        THEN {token \in tokens : ~isKeyword(token)}
        ELSE tokens

\* the templates the locals are taken from
LocalsLeaves ==
  {MustacheOf(PathExpression("VarHead", n)) : n \in {"button", "Foo"}}
    \cup {MustacheOf(PathExpression("ThisHead", "this")),
          MustacheOf(PathExpression("AtHead", "@arg"))}
    \cup {ElementNode(tag, <<>>, <<>>) :
            tag \in {<<"button">>, <<"Foo">>, <<"button", "Foo">>,
                     <<"this", "Foo">>, <<":main">>, <<"@arg">>}}

LocalsBlockParams == {<<>>, <<"button">>, <<"Foo">>}

Containers(bodies) ==
  {ElementNode(tag, params, body) :
     tag \in {<<"SomeComponent">>, <<"button">>}, params \in LocalsBlockParams,
     body \in bodies}
    \cup {BlockOf(PathExpression("VarHead", "if"), ProgramBlock(params, body)) :
            params \in LocalsBlockParams, body \in bodies}

LeafBodies == {<<l>> : l \in LocalsLeaves}

InnerContainers == Containers(LeafBodies)

OuterContainers ==
  Containers(LeafBodies
               \cup {<<l, m>> : l \in LocalsLeaves, m \in LocalsLeaves}
               \cup {<<c>> : c \in InnerContainers}
               \cup {<<c, l>> : c \in InnerContainers, l \in LocalsLeaves})

LocalsTemplates == {TemplateNode(<<n>>) : n \in LocalsLeaves \cup OuterContainers}

LocalsOptions ==
  [includeHtmlElements : BOOLEAN, includeKeywords : BOOLEAN]

GetTemplateLocals ==
  /\ scanned.phase = "template"
  /\ scanned' = [scanned EXCEPT !.phase = "scanned",
                                !.tokens = getTemplateLocals(scanned.ast, scanned.opts)]

LocalsInit ==
  /\ Idle
  /\ located = NoSource
  /\ startTag = NoStartTag
  /\ constructing = NotConstructing
  /\ fired = NoCallback
  /\ \E ast \in LocalsTemplates, opts \in LocalsOptions :
       scanned = [phase |-> "template", ast |-> ast, opts |-> opts, tokens |-> {}]

LocalsNext == GetTemplateLocals /\ UNCHANGED_idle /\ UNCHANGED <<located, startTag, constructing, fired>>

LocalsSpec == LocalsInit /\ [][LocalsNext]_vars

\* the first segment of what a node names: the head of a path that is
\* neither `this` nor an argument, the tag of an element that is neither a
\* named block, an argument nor on `this`
UsedName(node) ==
  IF node.type = "PathExpression"
    THEN IF node.head = "VarHead" THEN {node.name} ELSE {}
    ELSE IF node.type = "ElementNode" /\ node.tag[1] \notin {":main", "@arg", "this"}
           THEN {node.tag[1]}
           ELSE {}

RECURSIVE FreeUses(_, _)

\* the names used at a site where no enclosing element or block binds them
FreeUses(node, bound) ==
  LET inside == IF node.type \in {"Block", "ElementNode"}
                  THEN bound \cup {node.blockParams[i] : i \in DOMAIN node.blockParams}
                  ELSE bound
  IN  (UsedName(node) \ bound)
        \cup UNION {FreeUses(node.children[i], inside) : i \in DOMAIN node.children}

\* C30: getTemplateLocals reports no name all of whose use sites lie where
\* an enclosing element or block binds the name as a block param, with HTML
\* elements included or not.
C30_BoundNamesAreNotReported ==
  scanned.phase = "scanned" => scanned.tokens \subseteq FreeUses(scanned.ast, {})

\* ------------------------------------------------------ the three stacks
\* the depth of what the parser is constructing: the legacy state stack
\* (classic), the constructing cursor (thunk)
constructingDepth(p) ==
  IF p.pipeline = "classic" THEN Len(p.stateStack)
  ELSE IF constructingType(p) = "none" THEN 0 ELSE 1

\* the parse came back to acceptTemplate
ParseReturned == outcome = "accepted"

\* C31: when the parse returns, the parent stack, the scope stack and the
\* constructing stack are each at the depth they had when the parse began.
C31_StacksAreBalancedAtTheEnd ==
  ParseReturned
    => /\ Len(parser.parentStack) = Len(InitParser(pipeline).parentStack)
       /\ Len(parser.builderStack) = Len(InitParser(pipeline).builderStack)
       /\ constructingDepth(parser) = constructingDepth(InitParser(pipeline))

\* C32: from the push of the Template to its pop at the end of the parse,
\* the parent stack is never empty.
C32_ParentStackNeverEmptyWhileParsing ==
  outcome = "parsing" => Len(parser.parentStack) > 0

\* ------------------------------------------------- constructing records
\* the records that take the characters of a comment, a text node, a tag
\* name or an attribute name between a begin event and its finish event

MaxChars == 3        \* characters appended to one constructing record

DataChars == {"a", "b"}

\* ConstructingComment.addChar
ConstructingComment_addChar(chars, char) == char

\* ConstructingText.addChar
ConstructingText_addChar(chars, char) == char

\* ConstructingTagName.addChar
ConstructingTagName_addChar(name, char) == name \o char

\* ConstructingEndTag.addChar
ConstructingEndTag_addChar(name, char) == name \o char

\* ConstructingAttribute.addChar
ConstructingAttribute_addChar(name, char) == name \o char

\* TokenizerEventHandlers.appendToCommentData: comment.value += char
appendToCommentData(value, char) == value \o char

\* TokenizerEventHandlers.appendToData: text.chars += char
appendToData(chars, char) == chars \o char

\* Parser.addChar: the record being constructed takes the character
addChar(type, chars, char) ==
  CASE type = "Comment" -> ConstructingComment_addChar(chars, char)
    [] type = "Text" -> ConstructingText_addChar(chars, char)
    [] type = "TagName" -> ConstructingTagName_addChar(chars, char)
    [] type = "EndTag" -> ConstructingEndTag_addChar(chars, char)
    [] type = "Attribute" -> ConstructingAttribute_addChar(chars, char)

\* the records Parser.addChar feeds and the nodes the handlers modify
ConstructingTypes == {"Comment", "Text", "TagName", "EndTag", "Attribute"}
ModifiedTypes == {"CommentStatement", "TextNode"}

\* a begin event: comment.start, text.start, element.start, startAttr, or
\* beginComment, beginData of the handlers; appended is the text appended
\* since, kept for the comparison
Begin ==
  /\ constructing.phase \in {"none", "finished"}
  /\ \E type \in ConstructingTypes \cup ModifiedTypes :
       constructing' = [phase |-> "begun", type |-> type, chars |-> "",
                        appended |-> "", count |-> 0, finished |-> ""]

\* an append event
AddChar ==
  /\ constructing.phase = "begun"
  /\ constructing.count < MaxChars
  /\ \E char \in DataChars :
       constructing' =
         [constructing EXCEPT
            !.chars = CASE constructing.type = "CommentStatement" ->
                             appendToCommentData(@, char)
                        [] constructing.type = "TextNode" -> appendToData(@, char)
                        [] OTHER -> addChar(constructing.type, @, char),
            !.appended = @ \o char,
            !.count = @ + 1]

\* a finish event: the node is built from what the record holds
Finish ==
  /\ constructing.phase = "begun"
  /\ constructing' = [constructing EXCEPT !.phase = "finished",
                                          !.finished = constructing.chars]

CharsInit ==
  /\ Idle
  /\ located = NoSource
  /\ startTag = NoStartTag
  /\ scanned = NoLocals
  /\ constructing = NotConstructing
  /\ fired = NoCallback

CharsNext ==
  \/ Begin /\ UNCHANGED_idle /\ UNCHANGED <<located, startTag, scanned, fired>>
  \/ AddChar /\ UNCHANGED_idle /\ UNCHANGED <<located, startTag, scanned, fired>>
  \/ Finish /\ UNCHANGED_idle /\ UNCHANGED <<located, startTag, scanned, fired>>

CharsSpec == CharsInit /\ [][CharsNext]_vars

\* C33: the finished comment, text node, tag name or attribute name is the
\* concatenation, in order, of the characters appended between its begin
\* event and its finish event.
C33_FinishedTextIsWhatWasAppended ==
  constructing.phase = "finished" => constructing.finished = constructing.appended

\* ------------------------------------------- tokenizer state validation
\* SIMPLIFY_TOKENIZER_STATE: the tokenizer states the parser has a simplified
\* state for
SIMPLIFY_TOKENIZER_STATE ==
  [beforeData |-> "top-level",
   data |-> "text",
   tagOpen |-> "tag-name:start:before",
   endTagOpen |-> "tag-name:end:before",
   tagName |-> "tag-name:start:in",
   endTagName |-> "tag-name:end:in",
   comment |-> "comment",
   commentStart |-> "comment",
   commentStartDash |-> "comment",
   commentEndDash |-> "comment",
   commentEnd |-> "comment",
   beforeAttributeName |-> "tag:top-level",
   afterAttributeValueQuoted |-> "tag:top-level",
   attributeName |-> "attribute:name:in",
   afterAttributeName |-> "attribute:name:after",
   beforeAttributeValue |-> "attribute:value:before",
   attributeValueDoubleQuoted |-> "attribute:value:double-quoted",
   attributeValueSingleQuoted |-> "attribute:value:single-quoted",
   attributeValueUnquoted |-> "attribute:value:unquoted",
   selfClosingStartTag |-> "tag:start:self-closing",
   doctype |-> "doctype",
   doctypeName |-> "doctype:name",
   afterDoctypeName |-> "doctype:top-level",
   doctypePublicIdentifierDoubleQuoted |-> "doctype:public-id",
   doctypePublicIdentifierSingleQuoted |-> "doctype:public-id",
   afterDoctypePublicIdentifier |-> "doctype:top-level",
   doctypeSystemIdentifierDoubleQuoted |-> "doctype:system-id",
   doctypeSystemIdentifierSingleQuoted |-> "doctype:system-id",
   afterDocTypeSystemIdentifier |-> "doctype:top-level",
   betweenDoctypePublicAndSystemIdentifiers |-> "doctype:top-level"]

\* tokenizer states of the TokenizerState type that have no simplified state
UnmappedStates == {"markupDeclarationOpen", "characterReferenceEnd"}

TokenizerStates == DOMAIN SIMPLIFY_TOKENIZER_STATE \cup UnmappedStates

ATTR_VALUE ==
  {"attribute:value:double-quoted", "attribute:value:single-quoted",
   "attribute:value:unquoted"}

\* VALID_STATES_FOR_EVENTS: the simplified states each callback may fire from
VALID_STATES_FOR_EVENTS ==
  [reset |-> {},
   finishData |-> {"text"},
   tagOpen |-> {"tag-name:start:before"},
   beginData |-> {"text"},
   appendToData |-> {"text"},
   beginStartTag |-> {"tag-name:start:in"},
   appendToTagName |-> {"tag-name:start:in", "tag-name:end:in"},
   beginAttribute |-> {"attribute:name:in"},
   appendToAttributeName |-> {"attribute:name:in"},
   beginAttributeValue |->
     {"attribute:name:in", "attribute:name:after", "attribute:value:before"}
       \cup ATTR_VALUE,
   finishAttributeValue |->
     {"attribute:name:in", "attribute:name:after", "attribute:value:before"}
       \cup ATTR_VALUE,
   appendToAttributeValue |-> ATTR_VALUE,
   markTagAsSelfClosing |-> {"tag:start:self-closing"},
   beginEndTag |-> {"tag-name:end:in"},
   finishTag |->
     {"tag-name:start:in", "tag-name:end:in", "tag:top-level",
      "attribute:name:in", "attribute:name:after", "attribute:value:before",
      "attribute:value:unquoted", "tag:start:self-closing"},
   beginComment |-> {"comment"},
   appendToCommentData |-> {"comment"},
   finishComment |-> {"comment"},
   reportSyntaxError |-> {},
   beginDoctype |-> {"doctype"},
   appendToDoctypeName |-> {"doctype:name"},
   appendToDoctypePublicIdentifier |-> {"doctype:public-id"},
   appendToDoctypeSystemIdentifier |-> {"doctype:system-id"},
   endDoctype |-> {"doctype:name", "doctype:top-level", "doctype:public-id",
                   "doctype:system-id"}]

\* the callbacks the tokenizer event handlers trace
TracedEvents ==
  {"beginComment", "appendToCommentData", "finishComment", "beginData",
   "appendToData", "finishData", "tagOpen", "beginStartTag", "beginEndTag",
   "finishTag", "markTagAsSelfClosing", "appendToTagName", "beginAttribute",
   "appendToAttributeName", "beginAttributeValue", "appendToAttributeValue",
   "finishAttributeValue"}

\* assert as the validation imports it, from 'console': a false condition
\* is written to the console and nothing is thrown
console_assert(condition) == FALSE

\* validate(event, state): TRUE when it throws, which only the lookup of
\* asSimpleState (existing) can do
validate(event, state) ==
  \/ console_assert(state \in DOMAIN SIMPLIFY_TOKENIZER_STATE)
  \/ state \notin DOMAIN SIMPLIFY_TOKENIZER_STATE
  \/ console_assert(SIMPLIFY_TOKENIZER_STATE[state] \in VALID_STATES_FOR_EVENTS[event])

\* Parser.traced('<event>:trace'): Parser.state(event) validates, in a
\* local debug build only; TRUE when it throws
traced(event, state, debug) == debug /\ validate(event, state)

\* the handler of a callback: the handlers of the thunk parser trace the
\* callback first, those of the classic parser only record it
handlerThrows(handlers, event, state, debug) ==
  handlers = "thunk" /\ traced(event, state, debug)

\* the tokenizer calls a delegate callback in some state
Fire ==
  /\ fired.phase = "none"
  /\ \E handlers \in {"thunk", "classic"}, debug \in BOOLEAN,
        event \in TracedEvents, state \in TokenizerStates :
       fired' = [phase |-> "fired", handlers |-> handlers, debug |-> debug,
                 event |-> event, state |-> state,
                 raised |-> FALSE, processed |-> FALSE]

\* the handler of the callback runs
Handle ==
  /\ fired.phase = "fired"
  /\ LET throws == handlerThrows(fired.handlers, fired.event, fired.state, fired.debug)
     IN fired' = [fired EXCEPT !.phase = "handled",
                               !.raised = throws,
                               !.processed = ~throws]

ValidateInit ==
  /\ Idle
  /\ located = NoSource
  /\ startTag = NoStartTag
  /\ scanned = NoLocals
  /\ constructing = NotConstructing
  /\ fired = NoCallback

ValidateNext ==
  \/ Fire /\ UNCHANGED_idle /\ UNCHANGED <<located, startTag, scanned, constructing>>
  \/ Handle /\ UNCHANGED_idle /\ UNCHANGED <<located, startTag, scanned, constructing>>

ValidateSpec == ValidateInit /\ [][ValidateNext]_vars

\* the callback fired from a state in which it is legal
LegalCallback(event, state) ==
  /\ state \in DOMAIN SIMPLIFY_TOKENIZER_STATE
  /\ SIMPLIFY_TOKENIZER_STATE[state] \in VALID_STATES_FOR_EVENTS[event]

\* C34: a tokenizer callback fired from a state outside the set of
\* simplified states in which the event is legal raises an error and is
\* not processed.
C34_IllegalCallbackRaisesAndIsNotProcessed ==
  (fired.phase = "handled" /\ ~LegalCallback(fired.event, fired.state))
    => (fired.raised /\ ~fired.processed)

\* ------------------------------------------ attribute values with parts
MaxValueEvents == 4  \* characters and mustaches of one attribute value
ValueChars == {"a", "b"}
ValueNames == {"a", "b"}

\* the parser once the tokenizer has begun a start tag and an attribute in it
AttrStart(pl) ==
  appendToAttributeName(beginAttribute(beginTag(InitParser(pl), "StartTag")), "x")

\* beginAttributeValue: the tokenizer reaches the value of the attribute
BeginValue ==
  /\ constructing.phase = "none"
  /\ \E pl \in {"thunk", "classic"}, isQuoted \in BOOLEAN :
       constructing' = [phase |-> "value",
                        p |-> beginAttributeValue(AttrStart(pl), isQuoted),
                        quoted |-> isQuoted,
                        events |-> <<>>]

\* appendToAttributeValue: a character of the value
ValueChar ==
  /\ constructing.phase = "value"
  /\ Len(constructing.events) < MaxValueEvents
  /\ \E char \in ValueChars :
       constructing' =
         [constructing EXCEPT
            !.p = appendToAttributeValue(@, char),
            !.events = Append(@, [kind |-> "char", chars |-> char, node |-> NoValue])]

\* MustacheStatement inside the value: #dynamicAttrPart
ValueDynamic ==
  /\ constructing.phase = "value"
  /\ Len(constructing.events) < MaxValueEvents
  /\ \E name \in ValueNames :
       LET m == mustache(constructing.p, name)
       IN constructing' =
            [constructing EXCEPT
               !.p = appendDynamicAttributeValuePart(@, m),
               !.events = Append(@, [kind |-> "dynamic", chars |-> "", node |-> m])]

\* finishAttributeValue: the value is assembled
FinishValue ==
  /\ constructing.phase = "value"
  /\ constructing' = [constructing EXCEPT !.phase = "assembled",
                                          !.p = finishAttributeValue(@)]

AttrValueInit ==
  /\ Idle
  /\ located = NoSource
  /\ startTag = NoStartTag
  /\ scanned = NoLocals
  /\ constructing = NotConstructing
  /\ fired = NoCallback

AttrValueNext ==
  \/ BeginValue /\ UNCHANGED_idle /\ UNCHANGED <<located, startTag, scanned, fired>>
  \/ ValueChar /\ UNCHANGED_idle /\ UNCHANGED <<located, startTag, scanned, fired>>
  \/ ValueDynamic /\ UNCHANGED_idle /\ UNCHANGED <<located, startTag, scanned, fired>>
  \/ FinishValue /\ UNCHANGED_idle /\ UNCHANGED <<located, startTag, scanned, fired>>

AttrValueSpec == AttrValueInit /\ [][AttrValueNext]_vars

\* the text run accumulated before a dynamic part or the end of the value
RunOf(run) == IF run = "" THEN <<>> ELSE <<TextNode(run)>>

\* the parts the events of a value describe, from event i on, run being the
\* characters appended since the previous dynamic part
RECURSIVE PartsFrom(_, _, _)
PartsFrom(events, i, run) ==
  IF i > Len(events) THEN RunOf(run)
  ELSE IF events[i].kind = "char"
  THEN PartsFrom(events, i + 1, run \o events[i].chars)
  ELSE RunOf(run) \o <<events[i].node>> \o PartsFrom(events, i + 1, "")

HasDynamic(events) == \E i \in DOMAIN events : events[i].kind = "dynamic"

QuotedDynamicAssembled ==
  /\ constructing.phase = "assembled"
  /\ constructing.quoted
  /\ HasDynamic(constructing.events)

MaxCalls == 3        \* conversions asked of one offset

\* a position that is none of the template's: it is never the answer of
\* hbsPosFor
ElsewherePosition == Position(MaxLine + 1, 0)

\* what a conversion hands back: whether it raised, the offset object as it
\* is afterwards and the answer
Converted(raised, object, result) ==
  [raised |-> raised, object |-> object, result |-> result]

\* the position kept in the cache is not the one handed back
OffsetPosition_toAST_keepsAnother(source, object) ==
  IF object.data.pos = NoPosition
  THEN LET pos == hbsPosFor(source, object.data.offset)
       IN IF pos = NoPosition THEN Converted(TRUE, object, pos)
          ELSE Converted(FALSE, [object EXCEPT !.data.pos = ElsewherePosition], pos)
  ELSE Converted(FALSE, object, object.data.pos)

\* OffsetPosition.toAST: #pos is filled by the first call that finds it null
OffsetPosition_toAST(source, object) ==
  IF object.data.pos = NoPosition
  THEN LET pos == hbsPosFor(source, object.data.offset)
       IN IF pos = NoPosition THEN Converted(TRUE, object, pos)
          ELSE Converted(FALSE, [object EXCEPT !.data.pos = pos], pos)
  ELSE Converted(FALSE, object, object.data.pos)

\* AstPosition.#compute behind convert() and the offset getter: #cache is
\* filled by the first call that finds it null
AstPosition_compute(source, DEBUG, object) ==
  IF object.cache = <<>>
  THEN LET made == compute(source, object.data.pos, DEBUG)
       IN IF made.raised THEN Converted(TRUE, object, made.data)
          ELSE Converted(FALSE, [object EXCEPT !.cache = <<made.data>>], made.data)
  ELSE Converted(FALSE, object, object.cache[1])

\* the conversion of the object to the other form
convert(source, DEBUG, object) ==
  IF object.data.kind = "offset" THEN OffsetPosition_toAST(source, object)
  ELSE AstPosition_compute(source, DEBUG, object)

\* template.offsetFor(line, column) or an offset of the template: a
\* SourceOffset whose cache is empty
NewOffset ==
  /\ located.phase = "template"
  /\ \E data \in {OffsetPosition(n, NoPosition) : n \in 0..Len(located.source)}
                   \cup {AstPosition(pos) : pos \in Positions} :
       located' = [phase |-> "offset", source |-> located.source,
                   DEBUG |-> located.DEBUG,
                   made |-> [data |-> data, cache |-> <<>>],
                   object |-> [data |-> data, cache |-> <<>>],
                   answers |-> <<>>]

\* toAST() of an OffsetPosition, convert() of an AstPosition
Conversion ==
  /\ located.phase = "offset"
  /\ Len(located.answers) < MaxCalls
  /\ LET done == convert(located.source, located.DEBUG, located.object)
     IN located' = [located EXCEPT
                      !.object = done.object,
                      !.answers = Append(@, [raised |-> done.raised,
                                             result |-> done.result,
                                             object |-> done.object])]

CacheInit == SourceInit

CacheNext ==
  \/ NewOffset /\ UNCHANGED_idle /\ UNCHANGED <<startTag, scanned, constructing, fired>>
  \/ Conversion /\ UNCHANGED_idle /\ UNCHANGED <<startTag, scanned, constructing, fired>>

CacheSpec == CacheInit /\ [][CacheNext]_vars

\* the object differs from the other in its cache at most
SameButCache(object, other) ==
  /\ object.data.kind = other.data.kind
  /\ object.data.offset = other.data.offset
  /\ object.data.kind = "ast" => object.data.pos = other.data.pos

\* the cache of the object: #pos of an OffsetPosition, #cache of an AstPosition
CacheOf(object) ==
  IF object.data.kind = "offset"
  THEN IF object.data.pos = NoPosition THEN <<>> ELSE <<object.data.pos>>
  ELSE object.cache

\* C38: every conversion of an offset answers what the first conversion
\* answered, and the offset changes only in its cache, which is filled once,
\* by the first conversion, and stays as it was filled.
C38_ConversionIsIdempotent ==
  located.phase = "offset"
    => \A i \in DOMAIN located.answers :
         /\ located.answers[i].raised = located.answers[1].raised
         /\ located.answers[i].result = located.answers[1].result
         /\ SameButCache(located.answers[i].object, located.made)
         /\ CacheOf(located.answers[i].object) = CacheOf(located.answers[1].object)
         /\ CacheOf(located.answers[i].object) \in {<<>>, <<located.answers[i].result>>}

\* an offset on the second line of the source has been converted MaxCalls
\* times, the first conversion filling the cache with the position
C38_Witness ==
  /\ located.phase = "offset"
  /\ Len(located.answers) = MaxCalls
  /\ located.made.data.kind = "offset"
  /\ CacheOf(located.made) = <<>>
  /\ CacheOf(located.object) = <<located.answers[MaxCalls].result>>
  /\ located.answers[MaxCalls].result.line = 2

\* ------------------------------------- Handlebars inside an HTML comment
MaxCommentEvents == 4  \* characters and statements inside one comment
CommentChars == {"a", "-"}
StatementTexts ==
  [MustacheStatement |-> "{{x}}", BlockStatement |-> "{{#x}}{{/x}}",
   MustacheCommentStatement |-> "{{!x}}"]

\* the tokenizer states in which a comment is open
CommentStates ==
  {state \in DOMAIN SIMPLIFY_TOKENIZER_STATE :
     SIMPLIFY_TOKENIZER_STATE[state] = "comment"}

\* one character of a comment through the tokenizer: the state it leaves
\* and what it hands to appendToCommentData (a dash is held back until the
\* character after it is seen)
commentChar(state, char) ==
  CASE state = "commentStart" ->
         IF char = "-" THEN [state |-> "commentStartDash", data |-> <<>>]
         ELSE [state |-> "comment", data |-> <<char>>]
    [] state = "commentStartDash" ->
         IF char = "-" THEN [state |-> "commentEnd", data |-> <<>>]
         ELSE [state |-> "comment", data |-> <<"-">>]
    [] state = "comment" ->
         IF char = "-" THEN [state |-> "commentEndDash", data |-> <<>>]
         ELSE [state |-> "comment", data |-> <<char>>]
    [] state = "commentEndDash" ->
         IF char = "-" THEN [state |-> "commentEnd", data |-> <<>>]
         ELSE [state |-> "comment", data |-> <<"-", char>>]
    [] OTHER ->
         [state |-> "comment", data |-> <<"-", "-", char>>]

\* the test the visitors make for `inside a comment`: the simplified state
\* (thunk), the tokenizer state itself (classic)
insideComment(handlers, state) ==
  IF handlers = "thunk" THEN SIMPLIFY_TOKENIZER_STATE[state] = "comment"
  ELSE state = "comment"

\* BlockStatement, MustacheStatement and CommentStatement while a comment is
\* open: inside a comment the source of the node is appended to the
\* comment; otherwise the classic visitors go on as anywhere else: the
\* mustache is appended to the current element, the block raises a syntax
\* error, the mustache comment is reported as invalid
visitInComment(c, type) ==
  IF insideComment(c.handlers, c.state)
  THEN [c EXCEPT !.value = Append(@, StatementTexts[type])]
  ELSE CASE type = "MustacheStatement" -> [c EXCEPT !.appended = Append(@, type)]
         [] type = "BlockStatement" -> [c EXCEPT !.phase = "threw"]
         [] OTHER -> [c EXCEPT !.errors = Append(@, "html.syntax.invalid-hbs-comment")]

\* `<!--`: beginComment
BeginComment ==
  /\ constructing.phase = "none"
  /\ \E handlers \in {"thunk", "classic"} :
       constructing' = [phase |-> "comment", handlers |-> handlers,
                        state |-> "commentStart", value |-> <<>>,
                        source |-> <<>>, appended |-> <<>>, errors |-> <<>>]

\* a character of the comment
CommentChar ==
  /\ constructing.phase = "comment"
  /\ Len(constructing.source) < MaxCommentEvents
  /\ \E char \in CommentChars :
       LET step == commentChar(constructing.state, char)
       IN constructing' = [constructing EXCEPT
                             !.state = step.state,
                             !.value = @ \o step.data,
                             !.source = Append(@, char)]

\* a mustache, a block or a mustache comment where the comment stands
StatementInComment ==
  /\ constructing.phase = "comment"
  /\ Len(constructing.source) < MaxCommentEvents
  /\ \E type \in DOMAIN StatementTexts :
       constructing' = [visitInComment(constructing, type) EXCEPT
                          !.source = Append(@, StatementTexts[type])]

\* `>` after two dashes: finishComment
FinishComment ==
  /\ constructing.phase = "comment"
  /\ constructing.state = "commentEnd"
  /\ constructing' = [constructing EXCEPT !.phase = "finished"]

CommentInit ==
  /\ Idle
  /\ located = NoSource
  /\ startTag = NoStartTag
  /\ scanned = NoLocals
  /\ constructing = NotConstructing
  /\ fired = NoCallback

CommentNext ==
  \/ BeginComment /\ UNCHANGED_idle /\ UNCHANGED <<located, startTag, scanned, fired>>
  \/ CommentChar /\ UNCHANGED_idle /\ UNCHANGED <<located, startTag, scanned, fired>>
  \/ StatementInComment /\ UNCHANGED_idle /\ UNCHANGED <<located, startTag, scanned, fired>>
  \/ FinishComment /\ UNCHANGED_idle /\ UNCHANGED <<located, startTag, scanned, fired>>

CommentSpec == CommentInit /\ [][CommentNext]_vars

\* the comment the tokenizer alone makes of the source from token i on,
\* the source of a statement taken as one more character of the comment
RECURSIVE CommentOf(_, _, _, _)
CommentOf(source, i, state, value) ==
  IF i > Len(source) THEN [state |-> state, value |-> value]
  ELSE LET step == commentChar(state, source[i])
       IN CommentOf(source, i + 1, step.state, value \o step.data)

\* C39: a mustache, block or mustache comment met while an HTML comment is
\* being constructed is not added to the tree and raises nothing; its source
\* text is in the finished comment where it stands in the source, between
\* the characters around it.
C39_HandlebarsInCommentIsCommentText ==
  /\ constructing.phase # "threw"
  /\ constructing.phase \in {"comment", "finished"}
       => /\ constructing.appended = <<>>
          /\ constructing.errors = <<>>
  /\ constructing.phase = "finished"
       => constructing.value
            = CommentOf(constructing.source, 1, "commentStart", <<>>).value

\* --------------------------------------------- the excerpt of a diagnostic
\* what rendering hands back: the marker line as the lengths of its three
\* parts, or the RangeError of String.prototype.repeat
Rendered(before, marks, after) ==
  [raised |-> before < 0 \/ marks < 0 \/ after < 0,
   before |-> before, marks |-> marks, after |-> after]

\* no marker line: the span is on several lines or has no offsets, and the
\* excerpt is the text of the span
Unmarked == [raised |-> FALSE, before |-> 0, marks |-> 0, after |-> 0]

\* formatMarker: blanks up to the start column, `^` or `~` under the span,
\* blanks up to the end of the line; each part is made by repeat(count)
formatMarker(columns, length) ==
  LET size == columns.end - columns.start
      after == length - size - columns.start
  IN IF size = 0 THEN Rendered(columns.start, 1, after - 1)
     ELSE IF size = 1 THEN Rendered(columns.start, 1, after)
     ELSE Rendered(columns.start, size, after)

\* FormatSpan.format
FormatSpan_format(sourceLines, loc) ==
  IF loc.start.line = loc.end.line
  THEN formatMarker([start |-> loc.start.column, end |-> loc.end.column],
                    Len(sourceLines[loc.start.line]))
  ELSE Unmarked

\* ConcreteSpan.asAnnotatedString
asAnnotatedString(source, DEBUG, span) ==
  IF offsets(source, DEBUG, span) # NoOffsets
  THEN FormatSpan_format(lines(source),
                         [start |-> toAST(source, span.start),
                          end |-> toAST(source, span.end)])
  ELSE Unmarked

\* new GlimmerSyntaxError(message, span) for a span between two offsets of
\* the template
NewGlimmerSyntaxError ==
  /\ located.phase = "template"
  /\ \E start, end \in 0..Len(located.source) :
       /\ start <= end
       /\ LET span == SourceSpan_offsets(located.source, start, end)
          IN located' = [phase |-> "diagnostic", source |-> located.source,
                         DEBUG |-> located.DEBUG, span |-> span,
                         loc |-> [start |-> toAST(located.source, span.start),
                                  end |-> toAST(located.source, span.end)],
                         excerpt |-> asAnnotatedString(located.source,
                                                       located.DEBUG, span)]

DiagnosticInit == SourceInit

DiagnosticNext ==
  NewGlimmerSyntaxError /\ UNCHANGED_idle
    /\ UNCHANGED <<startTag, scanned, constructing, fired>>

DiagnosticSpec == DiagnosticInit /\ [][DiagnosticNext]_vars

\* C40: making a diagnostic for a span that resolves and lies on one line
\* raises nothing, a collapsed span at the end of its line included.
C40_DiagnosticNeverRaises ==
  (located.phase = "diagnostic" /\ located.loc.start.line = located.loc.end.line)
    => ~located.excerpt.raised
====
